---------------------------- MODULE Spec2Model ----------------------------
(***************************************************************************)
(* Verification model of the analysis core of pz-lua-stubgen:              *)
(*   - TypeResolver (resolve, resolveToLiteral, narrowTypes, ...),         *)
(*   - AnalysisFinalizer (finalizeTypes, finalizeExpression,               *)
(*     finalizeClassFields, findMatchingAncestorField),                    *)
(*   - AnalysisContext.setFunctionInfo / checkClosureClass,                *)
(*   - Analyzer.read.                                                      *)
(*                                                                         *)
(* JavaScript strings that the code inspects (startsWith, indexOf, slice)  *)
(* are sequences of tokens: '@table(1)[A]' is <<"@","table","(1)","[",     *)
(* "A","]">>, 'number' is <<"number">>.  A JavaScript Set<string> is an    *)
(* insertion-ordered sequence without duplicates.  undefined is <<>>.      *)
(***************************************************************************)
EXTENDS Integers, Sequences, FiniteSets, TLC

VARIABLES
    \* ---- AnalysisContext state read by the resolver
    definitions,            \* Map<string, LuaExpressionInfo[]>
    idToTableInfo,          \* Map<string, TableInfo>
    idToFunctionInfo,       \* Map<string, FunctionInfo>
    parameterToFunctionId,  \* Map<string, string>
    usageTypes,             \* Map<LuaExpression, Set<string>>
    modules,                \* Map<string, ResolvedModule>
    aliasMap,               \* Map<string, Set<string>>
    \* ---- one top-level call of TypeResolver.resolve, run step by step
    input,                  \* the LuaExpressionInfo the caller passes
    stack,                  \* the JavaScript call stack (frames of resolve / resolveToLiteral)
    seens,                  \* the `seen` Map objects alive in the call
    retTypes,               \* value returned by the last finished resolve
    retLit,                 \* value returned by the last finished resolveToLiteral
    status,                 \* "running" | "done" | "overflow" | "idle"
    lastCall,               \* what the last finished resolve call computed (ghost)
    \* ---- AnalysisFinalizer.finalizeClassFields over a class map
    clsMap,                 \* Map<string, AnalyzedClass[]>, pruned in place
    clsInput,               \* the class map as finalize built it (ghost)
    pruneTodo,              \* the keys of clsMap the running pass has yet to visit
    pruneRuns,              \* number of completed passes over clsMap
    pruneHung,              \* TRUE once a call of finalizeClassFields cannot return
    firstPruned,            \* clsMap as the first pass left it (ghost)
    \* ---- one function declaration and one module scope handed to the context
    node,                   \* the ast.FunctionDeclaration given to setFunctionInfo
    threw,                  \* the exception a context operation raised, or Undefined
    scopeItems,             \* scope.items of the module scope
    phase,                  \* "idle" | "read" | "method" | "parameters" | "failed" | "resolved" | "finalized"
    analyzed,               \* the AnalyzedModule finalize produced, or Undefined
    output,                 \* result of the last finalizeTypes / finalizeExpression call, or the
                            \* record of the statements handed to the context (ghost)
    \* ---- Analyzer.read
    identifiers,            \* the order handed to read
    readIndex,              \* position of the for loop over identifiers
    fileSet,                \* BaseReporter.fileSet
    readLog,                \* per position: "ok" | "parse" | "duplicate"
    returned,               \* the list read returned, or Undefined while it runs
    \* ---- the annotators (BaseAnnotator, Annotator)
    rosetta,                \* which Annotator class runs, and the Rosetta file of the module
    stub                    \* the module as augmentModule left it, what generateStub wrote
                            \* and the diagnostics recorded

ctxVars == <<definitions, idToTableInfo, idToFunctionInfo, parameterToFunctionId,
             usageTypes, modules, aliasMap>>
resolverVars == <<input, stack, seens, retTypes, retLit, status, lastCall>>
pruneVars == <<clsMap, clsInput, pruneTodo, pruneRuns, pruneHung, firstPruned>>
scopeVars == <<node, threw, scopeItems, phase, analyzed, output>>
readVars == <<identifiers, readIndex, fileSet, readLog, returned, rosetta, stub>>
\* everything the resolver never touches
restVars == <<pruneVars, scopeVars, readVars>>

-----------------------------------------------------------------------------
(* Strings and insertion-ordered sets                                      *)

S(w) == <<w>>

Undefined == <<>>

StartsWith(s, p) == Len(s) >= Len(p) /\ SubSeq(s, 1, Len(p)) = p

Has(ts, x) == \E i \in 1..Len(ts) : ts[i] = x

Add(ts, x) == IF Has(ts, x) THEN ts ELSE Append(ts, x)

RECURSIVE AddAll(_, _)
AddAll(ts, us) == IF us = <<>> THEN ts ELSE AddAll(Add(ts, Head(us)), Tail(us))

Delete(ts, x) == SelectSeq(ts, LAMBDA y : y # x)

AsSet(ts) == {ts[i] : i \in 1..Len(ts)}

MapGet(m, k, default) == IF k \in DOMAIN m THEN m[k] ELSE default

MapSet(m, k, v) == [x \in (DOMAIN m) \cup {k} |-> IF x = k THEN v ELSE m[x]]

EmptyMap == [x \in {} |-> <<>>]

-----------------------------------------------------------------------------
(* Identifiers and type names                                              *)

TablePrefix == <<"@", "table">>
FunctionPrefix == <<"@", "function">>
ParameterPrefix == <<"@", "parameter">>
SelfPrefix == <<"@", "self">>
InstancePrefix == <<"@", "instance">>

TableId(n) == <<"@", "table", n>>
FunctionId(n) == <<"@", "function", n>>
ParameterId(n, name) == <<"@", "parameter", n, "[", name, "]">>
InstanceMark == <<"@", "instance">>

TTrue == S("true")
TFalse == S("false")
TNil == S("nil")
TBoolean == S("boolean")
TNumber == S("number")
TString == S("string")
TTable == S("table")
TFunction == S("function")

-----------------------------------------------------------------------------
(* Expressions (LuaExpression) and expression infos                        *)

Literal(luaType, literal) ==
    [type |-> "literal", luaType |-> luaType, literal |-> literal,
     tableId |-> Undefined, functionId |-> Undefined]
TableLiteral(id) ==
    [type |-> "literal", luaType |-> TTable, literal |-> Undefined,
     tableId |-> id, functionId |-> Undefined]
FunctionLiteral(id) ==
    [type |-> "literal", luaType |-> TFunction, literal |-> Undefined,
     tableId |-> Undefined, functionId |-> id]
Reference(id) == [type |-> "reference", id |-> id]
Member(base, member) == [type |-> "member", base |-> base, member |-> member]
Index(base, index) == [type |-> "index", base |-> base, index |-> index]
Operation(operator, arguments) ==
    [type |-> "operation", operator |-> operator, arguments |-> arguments]
Require(module) == [type |-> "require", module |-> module]

LitTrue == Literal(TBoolean, TTrue)
LitFalse == Literal(TBoolean, TFalse)
LitNil == Literal(TNil, TNil)
LitNumber == Literal(TNumber, S("1"))
LitString == Literal(TString, <<"\"", "s", "\"">>)

\* identity of a LuaExpressionInfo object: stored definitions have one,
\* an object literal `{ expression: ... }` built for a call is fresh
NoKey == <<>>
DefKey(kind, owner, field, i) == <<kind, owner, field, i>>

\* `index` 0 stands for an absent index
Info(expression, index, key) == [expression |-> expression, index |-> index, key |-> key]
Fresh(expression) == Info(expression, 0, NoKey)
Def(expression) == [expression |-> expression, index |-> 0]


-----------------------------------------------------------------------------
(* AnalysisContext accessors                                               *)

\* helpers/readLuaStringLiteral: the content of a quoted Lua string literal
readLuaStringLiteral(key) ==
    IF Len(key) >= 2 /\ key[1] = "\"" /\ key[Len(key)] = "\""
    THEN SubSeq(key, 2, Len(key) - 1)
    ELSE Undefined

escapeQuotes(s) == [i \in 1..Len(s) |-> IF s[i] = "\"" THEN "\\\"" ELSE s[i]]

\* AnalysisContext.getLiteralKey(key, type?); an absent type is Undefined
getLiteralKey(key, type) ==
    LET internal == IF type = Undefined THEN key
                    ELSE IF type = TString THEN readLuaStringLiteral(key)
                    ELSE Undefined
    IN IF internal = Undefined THEN key
       ELSE <<"\"">> \o escapeQuotes(internal) \o <<"\"">>

getDefinitions(id) == MapGet(definitions, id, <<>>)

\* the record getTableInfo creates for an id it has not seen
NewTableInfo(id) ==
    [id |-> id, definitions |-> EmptyMap, className |-> Undefined, emitAsTable |-> FALSE,
     isEmptyClass |-> FALSE, containerId |-> Undefined, originalName |-> Undefined]

\* getTableInfo's effect on the table map
EnsureTable(tables, id) ==
    IF id \in DOMAIN tables THEN tables ELSE MapSet(tables, id, NewTableInfo(id))

RECURSIVE EnsureTables(_, _)
EnsureTables(tables, ids) ==
    IF ids = <<>> THEN tables
    ELSE EnsureTables(EnsureTable(tables, Head(ids)), Tail(ids))

getTableInfo(id) == MapGet(idToTableInfo, id, NewTableInfo(id))

\* an absent expression; `expr?.type` is then undefined
NoExpression == [type |-> "none"]

\* a minReturns that is undefined
NoMinimum == -1

NewFunctionInfo(id) ==
    [id |-> id, parameters |-> <<>>, parameterNames |-> <<>>, parameterTypes |-> <<>>,
     returnTypes |-> <<>>, returnExpressions |-> <<>>,
     identifierExpression |-> NoExpression, isConstructor |-> FALSE,
     minReturns |-> NoMinimum]

EnsureFunction(funcs, id) ==
    IF id \in DOMAIN funcs THEN funcs ELSE MapSet(funcs, id, NewFunctionInfo(id))

getFunctionInfo(id) == MapGet(idToFunctionInfo, id, NewFunctionInfo(id))

getFunctionIdFromParamId(id) == MapGet(parameterToFunctionId, id, Undefined)

UsageUniverse == {TBoolean, TFunction, TNumber, TString, TTable}

\* AnalysisContext.getUsageTypes: a mask, or Undefined when there is none, when it
\* is empty, or when it is the whole universe (size 5)
NoUsage == [present |-> FALSE, types |-> {}]
getUsageTypes(expr) ==
    IF expr \notin DOMAIN usageTypes THEN NoUsage
    ELSE LET types == usageTypes[expr]
         IN IF Cardinality(types) = 0 \/ Cardinality(types) = 5 THEN NoUsage
            ELSE [present |-> TRUE, types |-> types]

\* AnalysisContext.getModule(name, checkAliases = true); mod is Undefined if absent
getModule(name) ==
    IF name \in DOMAIN modules THEN name
    ELSE LET alias == MapGet(aliasMap, name, <<>>)
             firstAlias == IF Len(alias) > 0 THEN alias[1] ELSE Undefined
         IN IF firstAlias # Undefined /\ firstAlias \in DOMAIN modules
            THEN firstAlias ELSE Undefined

-----------------------------------------------------------------------------
(* TypeResolver: the pure parts                                            *)

\* resolve, case 'literal'
LiteralTypes(e) ==
    IF e.literal = TTrue THEN <<TTrue>>
    ELSE IF e.literal = TFalse THEN <<TFalse>>
    ELSE IF e.tableId # Undefined THEN <<e.tableId>>
    ELSE IF e.functionId # Undefined THEN <<e.functionId>>
    ELSE <<e.luaType>>

IsParam(id) == StartsWith(id, ParameterPrefix) \/ StartsWith(id, SelfPrefix)

\* resolve, case 'reference': the types added before the definitions are walked
ReferenceSeed(id) ==
    LET ids == IF IsParam(id) \/ StartsWith(id, FunctionPrefix)
                  \/ StartsWith(id, InstancePrefix)
               THEN <<id>> ELSE <<>>
        funcId == getFunctionIdFromParamId(id)
        funcInfo == getFunctionInfo(funcId)
        slots == {i \in 1..Len(funcInfo.parameters) : funcInfo.parameters[i] = id}
        slot == CHOOSE i \in slots : \A j \in slots : i <= j
    IN IF IsParam(id) /\ funcId # Undefined /\ slots # {}
          /\ slot <= Len(funcInfo.parameterTypes)
       THEN AddAll(ids, funcInfo.parameterTypes[slot])
       ELSE ids

\* resolve, case 'reference': the `break` taken for a parameter without a function
ReferenceSkipsDefinitions(id) ==
    IsParam(id) /\ getFunctionIdFromParamId(id) = Undefined

DefInfos(id) ==
    LET defs == getDefinitions(id)
    IN [i \in 1..Len(defs) |->
          Info(defs[i].expression, defs[i].index, DefKey("def", id, <<>>, i))]

FieldInfos(tableId, key) ==
    LET defs == MapGet(getTableInfo(tableId).definitions, key, <<>>)
    IN [i \in 1..Len(defs) |->
          Info(defs[i].expression, defs[i].index, DefKey("field", tableId, key, i))]

\* resolveFieldTypes: the definitions it resolves, in the order it visits them
RECURSIVE FieldTodo(_, _)
FieldTodo(types, literalKey) ==
    IF types = <<>> THEN <<>>
    ELSE (IF StartsWith(Head(types), TablePrefix)
          THEN FieldInfos(Head(types), literalKey) ELSE <<>>)
         \o FieldTodo(Tail(types), literalKey)

TableTypes(types) == SelectSeq(types, LAMBDA t : StartsWith(t, TablePrefix))

\* addKnownReturns
NoReturns == [defined |-> FALSE, list |-> <<>>]
KnownReturns(expr) ==
    IF expr.type # "reference" THEN NoReturns
    ELSE IF expr.id = S("tonumber") THEN [defined |-> TRUE, list |-> <<(<<TNumber, TNil>>)>>]
    ELSE IF expr.id = S("getTextOrNull") THEN [defined |-> TRUE, list |-> <<(<<TString, TNil>>)>>]
    ELSE IF expr.id = S("tostring") \/ expr.id = S("getText")
         THEN [defined |-> TRUE, list |-> <<(<<TString>>)>>]
    ELSE NoReturns

\* resolveReturnTypes, after the callee has been resolved
ReturnTypesOf(resolvedFuncTypes) ==
    IF Len(resolvedFuncTypes) # 1 THEN NoReturns
    ELSE IF ~StartsWith(resolvedFuncTypes[1], FunctionPrefix) THEN NoReturns
    ELSE LET funcInfo == getFunctionInfo(resolvedFuncTypes[1])
         IN IF funcInfo.isConstructor
            THEN [defined |-> TRUE,
                  list |-> << AddAll(<<InstanceMark>>,
                                     IF Len(funcInfo.returnTypes) > 0
                                     THEN funcInfo.returnTypes[1] ELSE <<>>) >>]
            ELSE [defined |-> TRUE, list |-> funcInfo.returnTypes]

\* resolveOperationTypes, case 'call': the slot picked from the return list
CallTypes(returnTypes, index) ==
    IF ~returnTypes.defined THEN <<>>
    ELSE IF index > Len(returnTypes.list) THEN <<TNil>>
    ELSE AddAll(<<>>, returnTypes.list[index])

\* getTruthiness: "true", "false" or "undefined"
getTruthiness(types) ==
    LET hasBoolean == Has(types, TBoolean)
        hasFalsy == \E i \in 1..Len(types) : types[i] = TFalse \/ types[i] = TNil
        hasTruthy == \E i \in 1..Len(types) : types[i] # TFalse /\ types[i] # TNil
    IN IF hasBoolean THEN "undefined"
       ELSE IF hasTruthy = hasFalsy THEN "undefined"
       ELSE IF hasTruthy THEN "true" ELSE "false"

RECURSIVE isLiteralOperation(_)
isLiteralOperation(expr) ==
    IF expr.type = "literal" THEN TRUE
    ELSE IF expr.type = "operation"
         THEN /\ expr.operator # "call"
              /\ \A i \in 1..Len(expr.arguments) : isLiteralOperation(expr.arguments[i])
    ELSE FALSE

LiteralTruthiness(expr, types) ==
    IF isLiteralOperation(expr) THEN getTruthiness(types) ELSE "undefined"

\* narrowTypes: which types the mask keeps
Permitted(usage, type) ==
    \/ StartsWith(type, FunctionPrefix) /\ TFunction \in usage
    \/ StartsWith(type, TablePrefix) /\ TTable \in usage
    \/ type \in usage

\* narrowTypes without its `narrowed.length === 0` guard
narrowToNothing(expr, types) ==
    IF Len(types) <= 1 THEN types
    ELSE LET usage == getUsageTypes(expr)
         IN IF ~usage.present THEN types
            ELSE SelectSeq(types, LAMBDA t : Permitted(usage.types, t))

narrowTypes(expr, types) ==
    IF Len(types) <= 1 THEN types
    ELSE LET usage == getUsageTypes(expr)
             narrowed == SelectSeq(types, LAMBDA t : Permitted(usage.types, t))
         IN IF ~usage.present THEN types
            ELSE IF Len(narrowed) = 0 THEN types
            ELSE narrowed

\* a resolve that adds boolean and forgets to delete true and false
addBoolean(types) ==
    IF Has(types, TTrue) /\ Has(types, TFalse) THEN Add(types, TBoolean) ELSE types

\* resolve, lines 202-206: {true, false} becomes boolean
BoolCollapse(types) ==
    IF Has(types, TTrue) /\ Has(types, TFalse)
    THEN Add(Delete(Delete(types, TTrue), TFalse), TBoolean)
    ELSE types

ArithmeticOperators ==
    {"+", "-", "*", "%", "^", "/", "//", "&", "|", "~", "<<", ">>", "#"}
ComparisonOperators == {"~=", "==", "<", "<=", ">", ">="}


-----------------------------------------------------------------------------
(* TypeResolver as a machine: one stack frame per active call of resolve   *)
(* or resolveToLiteral, one step per stretch of code between two calls.    *)

\* frames the JavaScript stack holds before the engine raises RangeError
MaxDepth == 12

NoLiteral == [type |-> "none", luaType |-> Undefined, literal |-> Undefined,
              tableId |-> Undefined, functionId |-> Undefined]

NoCall == [expression |-> LitNil, key |-> NoKey, pre |-> <<>>, narrowed |-> <<>>,
           returned |-> <<>>, memo |-> FALSE, masked |-> FALSE,
           lhsResolved |-> <<>>, rhsTypes |-> <<>>, count |-> 0, seen |-> 0]

ResolveFrame(info, seenIdx, owns) ==
    [fn |-> "resolve", info |-> info, seen |-> seenIdx, owns |-> owns, pc |-> "start",
     acc |-> <<>>, todo |-> <<>>, lhsTypes |-> <<>>, rhsTypes |-> <<>>,
     lhsResolved |-> <<>>, baseTypes |-> <<>>, stk |-> <<>>]

ToLiteralFrame(expression, seenIdx) ==
    [fn |-> "toLiteral", info |-> Fresh(expression), seen |-> seenIdx, owns |-> FALSE,
     pc |-> "pop", acc |-> <<>>, todo |-> <<>>, lhsTypes |-> <<>>, rhsTypes |-> <<>>,
     lhsResolved |-> <<>>, baseTypes |-> <<>>, stk |-> <<Fresh(expression)>>]

Top == stack[Len(stack)]
SetTop(f) == [stack EXCEPT ![Len(stack)] = f]
Popped == SubSeq(stack, 1, Len(stack) - 1)

Running(fn, pc) ==
    /\ status = "running"
    /\ Len(stack) > 0
    /\ Top.fn = fn
    /\ Top.pc = pc

\* `index: number = 1` and `info.index ?? 1`
IndexOrOne(info) == IF info.index = 0 THEN 1 ELSE info.index

\* a `seen` map that records nothing
seenNothing(idx, key, value) == seens

\* seen.set(info, value); an object literal built for one call is never looked up again
SeenSet(idx, key, value) ==
    IF key = NoKey THEN seens ELSE [seens EXCEPT ![idx] = MapSet(@, key, value)]

\* the Map made by `seen ??= new Map()` dies with the call that made it
DropOwned(s, f) == IF f.owns THEN SubSeq(s, 1, Len(s) - 1) ELSE s

\* this.resolve(info, seen); seenIdx 0 is an undefined `seen`
CallResolve(caller, info, seenIdx) ==
    IF Len(stack) >= MaxDepth
    THEN /\ status' = "overflow"
         /\ stack' = <<>>
         /\ seens' = <<>>
    ELSE /\ status' = status
         /\ stack' = Append(SetTop(caller),
                            ResolveFrame(info,
                                         IF seenIdx = 0 THEN Len(seens) + 1 ELSE seenIdx,
                                         seenIdx = 0))
         /\ seens' = IF seenIdx = 0 THEN Append(seens, EmptyMap) ELSE seens

\* this.resolveToLiteral(expression, seen)
CallToLiteral(caller, expression, seenIdx) ==
    IF Len(stack) >= MaxDepth
    THEN /\ status' = "overflow"
         /\ stack' = <<>>
         /\ seens' = <<>>
    ELSE /\ status' = status
         /\ stack' = Append(SetTop(caller), ToLiteralFrame(expression, seenIdx))
         /\ seens' = seens

\* `return types` of resolve
ResolveReturn(types, call) ==
    /\ stack' = Popped
    /\ retTypes' = types
    /\ status' = IF Len(stack) = 1 THEN "done" ELSE status
    /\ lastCall' = [call EXCEPT !.count = lastCall.count + 1]

\* `return` of resolveToLiteral
ToLiteralReturn(lit) ==
    /\ stack' = Popped
    /\ retLit' = lit
    /\ status' = IF Len(stack) = 1 THEN "done" ELSE status

\* resolve, case 'require': the Set the module stores for the requested return
RequireTypes(module, index) ==
    LET mod == getModule(module)
    IN IF mod = Undefined THEN <<>>
       ELSE IF index > Len(modules[mod].returns) THEN <<>>
       ELSE modules[mod].returns[index].types

\* does typesToAdd alias a Set stored in a module?
RequireAliases(module, index) ==
    LET mod == getModule(module)
    IN mod # Undefined /\ index <= Len(modules[mod].returns)


-----------------------------------------------------------------------------
(* resolve (part_002, lines 60-209) and resolveOperationTypes (549-683)    *)

\* the frame after lines 64-195 up to the first nested call
StartFrame(f) ==
    LET expr == f.info.expression
        index == IndexOrOne(f.info)
        known == IF Len(expr.arguments) > 0 THEN KnownReturns(expr.arguments[1])
                 ELSE NoReturns
        defs == IF ReferenceSkipsDefinitions(expr.id) THEN <<>> ELSE DefInfos(expr.id)
    IN CASE expr.type = "literal" ->
              [f EXCEPT !.acc = LiteralTypes(expr), !.pc = "finish"]
         [] expr.type = "reference" ->
              [f EXCEPT !.acc = ReferenceSeed(expr.id), !.todo = defs,
                        !.pc = IF defs = <<>> THEN "finish" ELSE "defs"]
         [] expr.type = "member" -> [f EXCEPT !.pc = "memberBase"]
         [] expr.type = "index" -> [f EXCEPT !.pc = "indexBase"]
         [] expr.type = "require" ->
              [f EXCEPT !.acc = RequireTypes(expr.module, index), !.pc = "finish"]
         [] expr.type = "operation" /\ expr.operator = "call" ->
              IF Len(expr.arguments) = 0 THEN [f EXCEPT !.pc = "finish"]
              ELSE IF known.defined
                   THEN [f EXCEPT !.acc = CallTypes(known, index), !.pc = "finish"]
                   ELSE [f EXCEPT !.pc = "call"]
         [] expr.type = "operation" /\ expr.operator = ".." ->
              [f EXCEPT !.acc = <<TString>>, !.pc = "finish"]
         [] expr.type = "operation" /\ expr.operator \in ComparisonOperators ->
              [f EXCEPT !.acc = <<TBoolean>>, !.pc = "finish"]
         [] expr.type = "operation" /\ expr.operator \in ArithmeticOperators ->
              [f EXCEPT !.acc = <<TNumber>>, !.pc = "finish"]
         [] expr.type = "operation" /\ expr.operator = "not" -> [f EXCEPT !.pc = "not"]
         [] expr.type = "operation" /\ expr.operator = "or" -> [f EXCEPT !.pc = "orLhs"]
         [] expr.type = "operation" /\ expr.operator = "and" -> [f EXCEPT !.pc = "andLhs"]
         [] OTHER -> [f EXCEPT !.pc = "finish"]

\* lines 64-71: a fresh call marks the info as in progress and dispatches
ResolveStart ==
    /\ Running("resolve", "start")
    /\ Top.info.key \notin DOMAIN seens[Top.seen]
    /\ LET f == Top
           expr == f.info.expression
       IN /\ seens' = SeenSet(f.seen, f.info.key, <<>>)
          /\ stack' = SetTop(StartFrame(f))
          /\ idToFunctionInfo' =
                IF expr.type = "reference" /\ IsParam(expr.id)
                   /\ getFunctionIdFromParamId(expr.id) # Undefined
                THEN EnsureFunction(idToFunctionInfo, getFunctionIdFromParamId(expr.id))
                ELSE idToFunctionInfo
    /\ UNCHANGED <<restVars, definitions, idToTableInfo, parameterToFunctionId, usageTypes,
                   modules, aliasMap, input, retTypes, retLit, status, lastCall>>

\* lines 67-69, checkCycle: an info already in `seen` answers from the Map
ResolveSeen ==
    /\ Running("resolve", "start")
    /\ Top.info.key \in DOMAIN seens[Top.seen]
    /\ LET f == Top
           existing == seens[f.seen][f.info.key]
           types == AddAll(<<>>, existing)
       IN /\ seens' = DropOwned(seens, f)
          /\ ResolveReturn(types,
                [NoCall EXCEPT !.expression = f.info.expression, !.key = f.info.key,
                               !.returned = types, !.memo = TRUE, !.seen = f.seen])
    /\ UNCHANGED <<restVars, ctxVars, input, retLit>>

\* line 136-138 and 535-537: resolve the next definition
ResolveDefs ==
    /\ Running("resolve", "defs")
    /\ LET f == Top
       IN CallResolve([f EXCEPT !.todo = Tail(f.todo), !.pc = "defsRet"],
                      Head(f.todo), f.seen)
    /\ UNCHANGED <<restVars, ctxVars, input, retTypes, retLit, lastCall>>

ResolveDefsRet ==
    /\ Running("resolve", "defsRet")
    /\ LET f == Top
       IN stack' = SetTop([f EXCEPT !.acc = AddAll(f.acc, retTypes),
                                    !.pc = IF f.todo = <<>> THEN "finish" ELSE "defs"])
    /\ UNCHANGED <<restVars, ctxVars, input, seens, retTypes, retLit, status, lastCall>>

\* lines 143-146
ResolveMemberBase ==
    /\ Running("resolve", "memberBase")
    /\ LET f == Top
       IN CallResolve([f EXCEPT !.pc = "memberRet"],
                      Info(f.info.expression.base, f.info.index, NoKey), f.seen)
    /\ UNCHANGED <<restVars, ctxVars, input, retTypes, retLit, lastCall>>

\* lines 148-153, resolveFieldTypes up to its first resolve
ResolveMemberRet ==
    /\ Running("resolve", "memberRet")
    /\ LET f == Top
           todo == FieldTodo(retTypes, getLiteralKey(f.info.expression.member, Undefined))
       IN /\ stack' = SetTop([f EXCEPT !.baseTypes = retTypes, !.todo = todo,
                                       !.pc = IF todo = <<>> THEN "finish" ELSE "defs"])
          /\ idToTableInfo' = EnsureTables(idToTableInfo, TableTypes(retTypes))
    /\ UNCHANGED <<restVars, definitions, idToFunctionInfo, parameterToFunctionId, usageTypes,
                   modules, aliasMap, input, seens, retTypes, retLit, status, lastCall>>

\* lines 158-161
ResolveIndexBase ==
    /\ Running("resolve", "indexBase")
    /\ LET f == Top
       IN CallResolve([f EXCEPT !.pc = "indexBaseRet"],
                      Info(f.info.expression.base, f.info.index, NoKey), f.seen)
    /\ UNCHANGED <<restVars, ctxVars, input, retTypes, retLit, lastCall>>

\* line 163
ResolveIndexLit ==
    /\ Running("resolve", "indexBaseRet")
    /\ LET f == Top
       IN CallToLiteral([f EXCEPT !.baseTypes = retTypes, !.pc = "indexLitRet"],
                        f.info.expression.index, f.seen)
    /\ UNCHANGED <<restVars, ctxVars, input, retTypes, retLit, lastCall>>

\* lines 165-180
ResolveIndexRet ==
    /\ Running("resolve", "indexLitRet")
    /\ LET f == Top
           noIndex == retLit.type = "none" \/ retLit.literal = Undefined
           key == getLiteralKey(retLit.literal, retLit.luaType)
           todo == IF noIndex THEN <<>> ELSE FieldTodo(f.baseTypes, key)
       IN /\ stack' = SetTop([f EXCEPT !.todo = todo,
                                       !.pc = IF todo = <<>> THEN "finish" ELSE "defs"])
          /\ idToTableInfo' = IF noIndex THEN idToTableInfo
                              ELSE EnsureTables(idToTableInfo, TableTypes(f.baseTypes))
    /\ UNCHANGED <<restVars, definitions, idToFunctionInfo, parameterToFunctionId, usageTypes,
                   modules, aliasMap, input, seens, retTypes, retLit, status, lastCall>>


\* resolveReturnTypes, line 230
ResolveCallFunc ==
    /\ Running("resolve", "call")
    /\ LET f == Top
       IN CallResolve([f EXCEPT !.pc = "callRet"],
                      Fresh(f.info.expression.arguments[1]), f.seen)
    /\ UNCHANGED <<restVars, ctxVars, input, retTypes, retLit, lastCall>>

\* resolveReturnTypes, lines 231-253, and resolveOperationTypes, lines 565-576
ResolveCallRet ==
    /\ Running("resolve", "callRet")
    /\ LET f == Top
           isFunction == Len(retTypes) = 1 /\ StartsWith(retTypes[1], FunctionPrefix)
       IN /\ stack' = SetTop([f EXCEPT !.acc = CallTypes(ReturnTypesOf(retTypes),
                                                         IndexOrOne(f.info)),
                                       !.pc = "finish"])
          /\ idToFunctionInfo' = IF isFunction
                                 THEN EnsureFunction(idToFunctionInfo, retTypes[1])
                                 ELSE idToFunctionInfo
    /\ UNCHANGED <<restVars, definitions, idToTableInfo, parameterToFunctionId, usageTypes,
                   modules, aliasMap, input, seens, retTypes, retLit, status, lastCall>>

\* lines 608-611
ResolveNotArg ==
    /\ Running("resolve", "not")
    /\ LET f == Top
       IN CallResolve([f EXCEPT !.pc = "notRet"],
                      Fresh(f.info.expression.arguments[1]), f.seen)
    /\ UNCHANGED <<restVars, ctxVars, input, retTypes, retLit, lastCall>>

\* lines 613-624
ResolveNotRet ==
    /\ Running("resolve", "notRet")
    /\ LET f == Top
           truthy == LiteralTruthiness(f.info.expression.arguments[1], retTypes)
           types == IF truthy = "undefined" THEN <<TBoolean>>
                    ELSE IF truthy = "true" THEN <<TFalse>> ELSE <<TTrue>>
       IN stack' = SetTop([f EXCEPT !.acc = types, !.pc = "finish"])
    /\ UNCHANGED <<restVars, ctxVars, input, seens, retTypes, retLit, status, lastCall>>

\* line 630
ResolveOrLhs ==
    /\ Running("resolve", "orLhs")
    /\ LET f == Top
       IN CallResolve([f EXCEPT !.pc = "orRhs"],
                      Fresh(f.info.expression.arguments[1]), f.seen)
    /\ UNCHANGED <<restVars, ctxVars, input, retTypes, retLit, lastCall>>

\* line 631
ResolveOrRhs ==
    /\ Running("resolve", "orRhs")
    /\ LET f == Top
       IN CallResolve([f EXCEPT !.lhsTypes = retTypes, !.lhsResolved = retTypes,
                                !.pc = "orRhsRet"],
                      Fresh(f.info.expression.arguments[2]), f.seen)
    /\ UNCHANGED <<restVars, ctxVars, input, retTypes, retLit, lastCall>>

\* line 634: is the left operand an `and` operation?
ResolveOrRhsRet ==
    /\ Running("resolve", "orRhsRet")
    /\ LET f == Top
           lhs == f.info.expression.arguments[1]
           ternary == lhs.type = "operation" /\ lhs.operator = "and"
       IN stack' = SetTop([f EXCEPT !.rhsTypes = retTypes,
                                    !.pc = IF ternary THEN "orTernary" ELSE "orCombine"])
    /\ UNCHANGED <<restVars, ctxVars, input, seens, retTypes, retLit, status, lastCall>>

\* lines 635-638: X and Y or Z, resolve Y
ResolveOrTernary ==
    /\ Running("resolve", "orTernary")
    /\ LET f == Top
       IN CallResolve([f EXCEPT !.pc = "orTernaryRet"],
                      Fresh(f.info.expression.arguments[1].arguments[2]), f.seen)
    /\ UNCHANGED <<restVars, ctxVars, input, retTypes, retLit, lastCall>>

ResolveOrTernaryRet ==
    /\ Running("resolve", "orTernaryRet")
    /\ stack' = SetTop([Top EXCEPT !.lhsTypes = retTypes, !.pc = "orCombine"])
    /\ UNCHANGED <<restVars, ctxVars, input, seens, retTypes, retLit, status, lastCall>>

\* lines 641-654
OrTypes(lhs, lhsTypes, rhsTypes) ==
    IF LiteralTruthiness(lhs, lhsTypes) = "false" THEN AddAll(<<>>, rhsTypes)
    ELSE AddAll(AddAll(<<>>, rhsTypes), lhsTypes)

ResolveOrCombine ==
    /\ Running("resolve", "orCombine")
    /\ LET f == Top
       IN stack' = SetTop([f EXCEPT
              !.acc = OrTypes(f.info.expression.arguments[1], f.lhsTypes, f.rhsTypes),
              !.pc = "finish"])
    /\ UNCHANGED <<restVars, ctxVars, input, seens, retTypes, retLit, status, lastCall>>

\* line 660
ResolveAndLhs ==
    /\ Running("resolve", "andLhs")
    /\ LET f == Top
       IN CallResolve([f EXCEPT !.pc = "andRhs"],
                      Fresh(f.info.expression.arguments[1]), f.seen)
    /\ UNCHANGED <<restVars, ctxVars, input, retTypes, retLit, lastCall>>

\* line 661
ResolveAndRhs ==
    /\ Running("resolve", "andRhs")
    /\ LET f == Top
       IN CallResolve([f EXCEPT !.lhsTypes = retTypes, !.lhsResolved = retTypes,
                                !.pc = "andRhsRet"],
                      Fresh(f.info.expression.arguments[2]), f.seen)
    /\ UNCHANGED <<restVars, ctxVars, input, retTypes, retLit, lastCall>>

\* an `and` whose truthy and falsy branches are swapped
andSwapped(lhs, lhsTypes, rhsTypes) ==
    LET lhsTruthy == LiteralTruthiness(lhs, lhsTypes)
    IN IF lhsTruthy = "true" THEN AddAll(<<>>, lhsTypes)
       ELSE IF lhsTruthy = "false" THEN AddAll(<<>>, rhsTypes)
       ELSE AddAll(AddAll(<<>>, lhsTypes), rhsTypes)

\* lines 663-677
AndTypes(lhs, lhsTypes, rhsTypes) ==
    LET lhsTruthy == LiteralTruthiness(lhs, lhsTypes)
    IN IF lhsTruthy = "true" THEN AddAll(<<>>, rhsTypes)
       ELSE IF lhsTruthy = "false" THEN AddAll(<<>>, lhsTypes)
       ELSE AddAll(AddAll(<<>>, lhsTypes), rhsTypes)

ResolveAndRhsRet ==
    /\ Running("resolve", "andRhsRet")
    /\ LET f == Top
       IN stack' = SetTop([f EXCEPT
              !.rhsTypes = retTypes,
              !.acc = AndTypes(f.info.expression.arguments[1], f.lhsTypes, retTypes),
              !.pc = "finish"])
    /\ UNCHANGED <<restVars, ctxVars, input, seens, retTypes, retLit, status, lastCall>>

\* lines 197-208: narrow, copy into `types`, memoise, collapse, return.
\* seen holds the very Set that the collapse then edits, so the Map entry is
\* the collapsed set; for a require, narrowTypes edits the module's own Set.
ResolveFinish ==
    /\ Running("resolve", "finish")
    /\ LET f == Top
           expr == f.info.expression
           typesToAdd == narrowTypes(expr, f.acc)
           types == BoolCollapse(AddAll(<<>>, typesToAdd))
           mod == getModule(expr.module)
           index == IndexOrOne(f.info)
       IN /\ seens' = DropOwned(SeenSet(f.seen, f.info.key, types), f)
          /\ modules' =
                IF expr.type = "require" /\ RequireAliases(expr.module, index)
                THEN [modules EXCEPT ![mod].returns[index].types = typesToAdd]
                ELSE modules
          /\ ResolveReturn(types,
                [NoCall EXCEPT !.expression = expr, !.key = f.info.key, !.pre = f.acc,
                               !.narrowed = typesToAdd, !.returned = types,
                               !.seen = f.seen,
                               !.masked = getUsageTypes(expr).present,
                               !.lhsResolved = f.lhsResolved, !.rhsTypes = f.rhsTypes])
    /\ UNCHANGED <<restVars, definitions, idToTableInfo, idToFunctionInfo, parameterToFunctionId,
                   usageTypes, aliasMap, input, retLit>>


-----------------------------------------------------------------------------
(* resolveToLiteral (part_002, lines 260-361)                              *)

\* `if (fieldDefs.length === 1) stack.push(fieldDefs[0])`
PushSingle(stk, defs) == IF Len(defs) = 1 THEN Append(stk, defs[1]) ELSE stk

\* lines 268-270: the loop test and stack.pop()
ToLiteralPop ==
    /\ Running("toLiteral", "pop")
    /\ Top.stk # <<>>
    /\ LET f == Top
       IN stack' = SetTop([f EXCEPT !.info = f.stk[Len(f.stk)],
                                    !.stk = SubSeq(f.stk, 1, Len(f.stk) - 1),
                                    !.pc = "step"])
    /\ UNCHANGED <<restVars, ctxVars, input, seens, retTypes, retLit, status, lastCall>>

\* line 361: the loop ran out of work, the result is undefined
ToLiteralEmpty ==
    /\ Running("toLiteral", "pop")
    /\ Top.stk = <<>>
    /\ ToLiteralReturn(NoLiteral)
    /\ UNCHANGED <<restVars, ctxVars, input, seens, retTypes, lastCall>>

\* lines 276-284
ToLiteralLiteral ==
    /\ Running("toLiteral", "step")
    /\ Top.info.expression.type = "literal"
    /\ LET expr == Top.info.expression
       IN ToLiteralReturn(IF expr.luaType # TTable /\ expr.luaType # TFunction
                          THEN expr ELSE NoLiteral)
    /\ UNCHANGED <<restVars, ctxVars, input, seens, retTypes, lastCall>>

\* lines 286-292 (and a require, which no case handles)
ToLiteralReference ==
    /\ Running("toLiteral", "step")
    /\ Top.info.expression.type \in {"reference", "require"}
    /\ LET f == Top
           expr == f.info.expression
           fieldDefs == IF expr.type = "reference" THEN DefInfos(expr.id) ELSE <<>>
       IN stack' = SetTop([f EXCEPT !.stk = PushSingle(f.stk, fieldDefs), !.pc = "pop"])
    /\ UNCHANGED <<restVars, ctxVars, input, seens, retTypes, retLit, status, lastCall>>

\* lines 295-297 and 314-316: this.resolve({ expression: expr.base }), no `seen`
ToLiteralBase ==
    /\ Running("toLiteral", "step")
    /\ Top.info.expression.type \in {"member", "index"}
    /\ LET f == Top
           expr == f.info.expression
       IN CallResolve([f EXCEPT !.pc = IF expr.type = "member" THEN "memberRet"
                                       ELSE "indexBaseRet"],
                      Fresh(expr.base), 0)
    /\ UNCHANGED <<restVars, ctxVars, input, retTypes, retLit, lastCall>>

\* lines 299-311
ToLiteralMemberRet ==
    /\ Running("toLiteral", "memberRet")
    /\ LET f == Top
           memberBase == retTypes
           key == getLiteralKey(f.info.expression.member, Undefined)
           fieldDefs == IF Len(memberBase) # 1 THEN <<>>
                        ELSE FieldInfos(memberBase[1], key)
       IN /\ stack' = SetTop([f EXCEPT !.stk = PushSingle(f.stk, fieldDefs), !.pc = "pop"])
          /\ idToTableInfo' = IF Len(memberBase) # 1 THEN idToTableInfo
                              ELSE EnsureTable(idToTableInfo, memberBase[1])
    /\ UNCHANGED <<restVars, definitions, idToFunctionInfo, parameterToFunctionId, usageTypes,
                   modules, aliasMap, input, seens, retTypes, retLit, status, lastCall>>

\* lines 318-320
ToLiteralIndexBaseRet ==
    /\ Running("toLiteral", "indexBaseRet")
    /\ stack' = SetTop([Top EXCEPT !.baseTypes = retTypes,
                                   !.pc = IF Len(retTypes) # 1 THEN "pop" ELSE "indexLit"])
    /\ UNCHANGED <<restVars, ctxVars, input, seens, retTypes, retLit, status, lastCall>>

\* line 322
ToLiteralIndexLit ==
    /\ Running("toLiteral", "indexLit")
    /\ LET f == Top
       IN CallToLiteral([f EXCEPT !.pc = "indexLitRet"], f.info.expression.index, f.seen)
    /\ UNCHANGED <<restVars, ctxVars, input, retTypes, retLit, lastCall>>

\* lines 324-340
ToLiteralIndexLitRet ==
    /\ Running("toLiteral", "indexLitRet")
    /\ LET f == Top
           noIndex == retLit.type = "none" \/ retLit.literal = Undefined
           key == getLiteralKey(retLit.literal, retLit.luaType)
           fieldDefs == IF noIndex THEN <<>> ELSE FieldInfos(f.baseTypes[1], key)
       IN /\ stack' = SetTop([f EXCEPT !.stk = PushSingle(f.stk, fieldDefs), !.pc = "pop"])
          /\ idToTableInfo' = IF noIndex THEN idToTableInfo
                              ELSE EnsureTable(idToTableInfo, f.baseTypes[1])
    /\ UNCHANGED <<restVars, definitions, idToFunctionInfo, parameterToFunctionId, usageTypes,
                   modules, aliasMap, input, seens, retTypes, retLit, status, lastCall>>

\* line 343
ToLiteralOp ==
    /\ Running("toLiteral", "step")
    /\ Top.info.expression.type = "operation"
    /\ LET f == Top
       IN CallResolve([f EXCEPT !.pc = "opRet"], Fresh(f.info.expression), f.seen)
    /\ UNCHANGED <<restVars, ctxVars, input, retTypes, retLit, lastCall>>

\* lines 345-356: a single 'true' or 'false' is the literal
ToLiteralOpKnown ==
    /\ Running("toLiteral", "opRet")
    /\ Len(retTypes) = 1
    /\ retTypes[1] \in {TTrue, TFalse}
    /\ ToLiteralReturn(Literal(TBoolean, retTypes[1]))
    /\ UNCHANGED <<restVars, ctxVars, input, seens, retTypes, lastCall>>

\* lines 345-347 and 358
ToLiteralOpUnknown ==
    /\ Running("toLiteral", "opRet")
    /\ ~(Len(retTypes) = 1 /\ retTypes[1] \in {TTrue, TFalse})
    /\ stack' = SetTop([Top EXCEPT !.pc = "pop"])
    /\ UNCHANGED <<restVars, ctxVars, input, seens, retTypes, retLit, status, lastCall>>


-----------------------------------------------------------------------------
(* Analysed programs the resolver is run on                                *)

IdX == S("x")
IdY == S("y")
IdK == S("k")
IdT == S("t")
IdF == S("f")
IdG == S("g")
IdNew == S("new")
Table1 == TableId("(1)")
Function1 == FunctionId("(1)")
Function2 == FunctionId("(2)")
Function3 == FunctionId("(3)")
Param1 == ParameterId("(1)", "a")
Param2 == ParameterId("(2)", "b")
Param3 == ParameterId("(3)", "c")
Param4 == ParameterId("(4)", "d")
SelfId == <<"@", "self", "(1)">>
LitKeyA == Literal(TString, <<"\"", "a", "\"">>)
KeyA == <<"\"", "a", "\"">>
KeyB == <<"\"", "b", "\"">>
KeyK == <<"\"", "k", "\"">>

\* addUsage, lines 1075-1128: what one usage item removes from a mask
UsageItems ==
    [supportsConcatenation : BOOLEAN, supportsIndexing : BOOLEAN, supportsLength : BOOLEAN,
     supportsIndexAssignment : BOOLEAN, supportsMath : BOOLEAN, inNumericFor : BOOLEAN,
     isCall : BOOLEAN]

\* a usage that leaves the mask as it finds it
keepMask(mask, item) == mask

addUsage(mask, item) ==
    LET m1 == IF item.supportsConcatenation
              THEN mask \ {TBoolean, TFunction, TTable} ELSE mask
        m2 == IF item.supportsIndexing \/ item.supportsLength
              THEN m1 \ {TBoolean, TFunction, TNumber} ELSE m1
        m3 == IF item.supportsIndexAssignment
              THEN m2 \ {TBoolean, TFunction, TNumber, TString} ELSE m2
        m4 == IF item.supportsMath \/ item.inNumericFor
              THEN m3 \ {TBoolean, TFunction, TString, TTable} ELSE m3
    IN IF item.isCall THEN m4 \ {TBoolean, TNumber, TString, TTable} ELSE m4

\* every mask the context can hold for an expression
UsageMasks == {addUsage(UsageUniverse, item) : item \in UsageItems}

Binary(op, A, B) == {Operation(op, <<a, b>>) : a \in A, b \in B}
Unary(op, A) == {Operation(op, <<a>>) : a \in A}

Lits == {LitTrue, LitFalse, LitNil, LitNumber, LitString}
NumberOrString == Operation("or", <<LitNumber, LitString>>)
LitOps ==
    Lits \cup Binary("or", Lits, Lits) \cup Binary("and", Lits, Lits)
         \cup Unary("not", Lits)
         \cup {Operation("==", <<LitNumber, LitNumber>>),
               Operation("..", <<LitString, LitNumber>>),
               Operation("+", <<LitNumber, LitNumber>>)}
Operands == Lits \cup {NumberOrString, Operation("==", <<LitNumber, LitNumber>>)}
LiteralOperations ==
    LitOps \cup Binary("or", LitOps, Operands) \cup Binary("and", LitOps, Operands)
           \cup Unary("not", LitOps)

Freshes(exprs) == {Fresh(e) : e \in exprs}

EmptyContext ==
    [definitions |-> EmptyMap, idToTableInfo |-> EmptyMap, idToFunctionInfo |-> EmptyMap,
     parameterToFunctionId |-> EmptyMap, usageTypes |-> EmptyMap, modules |-> EmptyMap,
     aliasMap |-> EmptyMap, inputs |-> {}]

\* literals and operators only, no usage recorded
ProgramLiterals == [EmptyContext EXCEPT !.inputs = Freshes(LiteralOperations)]

\* (1 or "s") is indexed somewhere; (true and (1 or "s")).x style uses of whole operations
ProgramLiteralUsage(mask) ==
    [EmptyContext EXCEPT
        !.usageTypes = (NumberOrString :> mask)
            @@ (Operation("and", <<LitTrue, NumberOrString>>) :> {TNumber})
            @@ (Operation("or", <<LitNil, NumberOrString>>) :> {TNumber}),
        !.inputs = Freshes(Binary("or", Lits, {NumberOrString})
                           \cup Binary("and", Lits, {NumberOrString})
                           \cup {NumberOrString})]

Table(id, defs) == [NewTableInfo(id) EXCEPT !.definitions = defs]

\* x = x        (or: x = y; y = x)
ProgramCycle(xDefs, yDefs) ==
    [EmptyContext EXCEPT
        !.definitions = (IdX :> xDefs) @@ (IdY :> yDefs)
            @@ (IdT :> <<Def(TableLiteral(Table1))>>),
        !.idToTableInfo = (Table1 :> Table(Table1, (KeyA :> <<Def(LitNumber)>>))),
        !.inputs = Freshes({Reference(IdX), Reference(IdY),
                            Index(Reference(IdT), Reference(IdX)),
                            Operation("or", <<Reference(IdX), Reference(IdY)>>),
                            Operation("not", <<Reference(IdX)>>)})]

\* x = true; x = false; y = x, with x used under some mask
ProgramBoolean(mask) ==
    [EmptyContext EXCEPT
        !.definitions = (IdX :> <<Def(LitTrue), Def(LitFalse)>>)
            @@ (IdY :> <<Def(Reference(IdX))>>),
        !.usageTypes = (Reference(IdX) :> mask),
        !.inputs = Freshes({Reference(IdX), Reference(IdY),
                            Operation("or", <<Reference(IdY), Reference(IdY)>>),
                            Operation("and", <<Reference(IdX), Reference(IdY)>>),
                            Operation("and", <<Reference(IdX), LitFalse>>),
                            Operation("not", <<Reference(IdY)>>)})]


\* t = { a = 1, b = t, k = "a", [false] = nil }; t.a = "s"; x = t; k = "a"
ProgramTable ==
    [EmptyContext EXCEPT
        !.definitions = (IdT :> <<Def(TableLiteral(Table1))>>)
            @@ (IdX :> <<Def(Reference(IdT))>>)
            @@ (IdK :> <<Def(LitKeyA)>>),
        !.idToTableInfo = (Table1 :> Table(Table1,
              (KeyA :> <<Def(LitNumber), Def(LitString)>>)
              @@ (KeyB :> <<Def(Reference(IdT))>>)
              @@ (KeyK :> <<Def(LitKeyA)>>)
              @@ (TFalse :> <<Def(LitNil)>>))),
        !.inputs = Freshes({Member(Reference(IdT), S("a")),
                            Member(Reference(IdX), S("b")),
                            Member(Member(Reference(IdT), S("b")), S("a")),
                            Member(Reference(IdT), S("missing")),
                            Member(LitNumber, S("a")),
                            Index(Reference(IdT), LitKeyA),
                            Index(Reference(IdT), Reference(IdK)),
                            Index(Reference(IdT), Reference(IdT)),
                            Index(Reference(IdT), Member(Reference(IdT), S("k"))),
                            Index(Reference(IdT), Member(LitNumber, S("k"))),
                            Index(Reference(IdT), Index(Reference(IdT), Reference(IdK))),
                            Index(Reference(IdT), Index(Reference(IdK), Reference(IdK))),
                            Index(Reference(IdT), Index(Reference(IdT), Require(S("m")))),
                            Index(Reference(IdT), Require(S("m"))),
                            Index(Reference(IdT), Operation("not", <<LitTrue>>)),
                            Index(Reference(IdT), Operation("..", <<LitString, LitString>>))})]

\* t = {}; t.k = t[t.k]
ProgramDeep ==
    [EmptyContext EXCEPT
        !.definitions = (IdT :> <<Def(TableLiteral(Table1))>>),
        !.idToTableInfo = (Table1 :> Table(Table1,
              (KeyK :> <<Def(Index(Reference(IdT), Member(Reference(IdT), S("k"))))>>))),
        !.inputs = Freshes({Member(Reference(IdT), S("k")),
                            Index(Reference(IdT), LitKeyA)})]

Function(id, parameters, parameterTypes, returnTypes, isConstructor) ==
    [NewFunctionInfo(id) EXCEPT
        !.parameters = parameters, !.parameterTypes = parameterTypes,
        !.returnTypes = returnTypes, !.isConstructor = isConstructor]

\* function f(a, b) return 1, s end; function new() ... end; g is either
ProgramFunction ==
    [EmptyContext EXCEPT
        !.definitions = (IdF :> <<Def(FunctionLiteral(Function1))>>)
            @@ (IdNew :> <<Def(FunctionLiteral(Function2))>>)
            @@ (IdG :> <<Def(FunctionLiteral(Function1)), Def(FunctionLiteral(Function2))>>)
            @@ (Param1 :> <<Def(LitString)>>)
            @@ (Param3 :> <<Def(LitNumber)>>),
        !.idToFunctionInfo =
            (Function1 :> Function(Function1, <<Param1, Param2>>, <<(<<TNumber, TNil>>)>>,
                                   <<(<<TNumber>>), <<TString, TNil>> >>, FALSE))
            @@ (Function2 :> Function(Function2, <<>>, <<>>, <<(<<Table1>>)>>, TRUE)),
        !.parameterToFunctionId = (Param1 :> Function1) @@ (Param2 :> Function1)
            @@ (Param4 :> Function3),
        !.inputs = {Info(Operation("call", <<Reference(IdF)>>), i, NoKey) : i \in 0..3}
            \cup Freshes({Operation("call", <<Reference(IdNew)>>),
                          Operation("call", <<Reference(IdG)>>),
                          Operation("call", <<Reference(S("h"))>>),
                          Operation("call", <<Reference(Function3)>>),
                          Operation("call", <<Reference(S("tonumber"))>>),
                          Operation("call", <<Reference(S("tostring"))>>),
                          Operation("call", <<Reference(S("getText"))>>),
                          Operation("call", <<Reference(S("getTextOrNull"))>>),
                          Operation("call", <<>>),
                          Operation("not", <<Operation("call", <<Reference(IdF)>>)>>),
                          Operation("and", <<Operation("call", <<Reference(IdF)>>), LitTrue>>),
                          Reference(Function1), Reference(InstanceMark), Reference(SelfId),
                          Reference(Param1), Reference(Param2), Reference(Param3),
                          Reference(Param4)})]

Module(returns) == [returns |-> [i \in 1..Len(returns) |-> [types |-> returns[i]]]]

\* local m = require("m"); m and n are modules, known under three alias sets
ProgramRequire(mask) ==
    [EmptyContext EXCEPT
        !.modules = (S("m") :> Module(<< <<Table1, TNil>>, <<TNumber>> >>))
            @@ (S("n") :> Module(<< <<TString>> >>)),
        !.aliasMap = (S("alias") :> <<S("m")>>) @@ (S("other") :> <<S("zz"), S("m")>>)
            @@ (S("both") :> <<S("m"), S("n")>>),
        !.usageTypes = (Require(S("m")) :> mask),
        !.inputs = {Info(Require(S("m")), i, NoKey) : i \in 0..3}
            \cup Freshes({Require(S("alias")), Require(S("other")), Require(S("none")),
                          Require(S("both")),
                          Operation("or", <<Require(S("m")), Require(S("m"))>>)})]

\* x = 1; x = "s"; x = {}; x = nil; x = function() end, with x used under some mask
ProgramUsage(mask) ==
    [EmptyContext EXCEPT
        !.definitions = (IdX :> <<Def(LitNumber), Def(LitString), Def(TableLiteral(Table1)),
                                  Def(LitNil), Def(FunctionLiteral(Function1))>>)
            @@ (IdY :> <<Def(LitNumber)>>),
        !.usageTypes = (Reference(IdX) :> mask) @@ (Reference(IdY) :> mask),
        !.inputs = Freshes({Reference(IdX), Reference(IdY),
                            Member(Reference(IdX), S("a"))})]

Programs ==
    {ProgramLiterals, ProgramTable, ProgramDeep, ProgramFunction,
     ProgramCycle(<<Def(Reference(IdX))>>, <<>>),
     ProgramCycle(<<Def(Reference(IdY))>>, <<Def(Reference(IdX))>>),
     ProgramCycle(<<Def(Reference(IdY))>>, <<Def(Reference(IdX)), Def(LitNumber)>>),
     ProgramCycle(<<Def(Reference(IdX)), Def(LitKeyA)>>, <<Def(Reference(IdY))>>),
     ProgramCycle(<<Def(LitNumber), Def(Reference(IdX))>>, <<Def(Reference(IdX))>>)}
    \cup {ProgramLiteralUsage(mask) : mask \in {{TString, TTable}, {TNumber}}}
    \cup {ProgramBoolean(mask) : mask \in UsageMasks}
    \cup {ProgramRequire(mask) : mask \in {UsageUniverse, {TTable}, {TNumber}}}
    \cup {ProgramUsage(mask) : mask \in UsageMasks}

-----------------------------------------------------------------------------
(* Parts of the program that are at rest                                   *)

\* a context nothing has been registered in
IdleContext ==
    /\ definitions = EmptyMap
    /\ idToTableInfo = EmptyMap
    /\ idToFunctionInfo = EmptyMap
    /\ parameterToFunctionId = EmptyMap
    /\ usageTypes = EmptyMap
    /\ modules = EmptyMap
    /\ aliasMap = EmptyMap

IdlePrune ==
    /\ clsMap = EmptyMap
    /\ clsInput = EmptyMap
    /\ pruneTodo = <<>>
    /\ pruneRuns = 0
    /\ pruneHung = FALSE
    /\ firstPruned = EmptyMap

\* nothing was finalized on its own yet
NoOutput == [kind |-> "none"]

IdleScope ==
    /\ node = Undefined
    /\ threw = Undefined
    /\ scopeItems = <<>>
    /\ phase = "idle"
    /\ analyzed = Undefined
    /\ output = NoOutput

\* read has not returned yet
NotReturned == [done |-> FALSE, modules |-> <<>>]

\* no annotator runs
NoRosetta == [annotator |-> "none"]
NoStub == [state |-> "idle"]
IdleAnnotate ==
    /\ rosetta = NoRosetta
    /\ stub = NoStub

IdleRead ==
    /\ identifiers = <<>>
    /\ readIndex = 0
    /\ fileSet = {}
    /\ readLog = <<>>
    /\ returned = NotReturned
    /\ IdleAnnotate

-----------------------------------------------------------------------------
(* The resolver specification                                              *)

IdleResolver ==
    /\ stack = <<>>
    /\ seens = <<>>
    /\ retTypes = <<>>
    /\ retLit = NoLiteral
    /\ status = "idle"
    /\ lastCall = NoCall

InitResolver ==
    /\ \E program \in Programs : \E info \in program.inputs :
          /\ definitions = program.definitions
          /\ idToTableInfo = program.idToTableInfo
          /\ idToFunctionInfo = program.idToFunctionInfo
          /\ parameterToFunctionId = program.parameterToFunctionId
          /\ usageTypes = program.usageTypes
          /\ modules = program.modules
          /\ aliasMap = program.aliasMap
          /\ input = info
    /\ IdleResolver
    /\ IdlePrune
    /\ IdleScope
    /\ IdleRead

\* a client calls typeResolver.resolve(info)
Resolve ==
    /\ status = "idle"
    /\ status' = "running"
    /\ stack' = <<ResolveFrame(input, 1, TRUE)>>
    /\ seens' = <<EmptyMap>>
    /\ UNCHANGED <<restVars, ctxVars, input, retTypes, retLit, lastCall>>

NextResolver ==
    \/ Resolve
    \/ ResolveStart
    \/ ResolveSeen
    \/ ResolveDefs
    \/ ResolveDefsRet
    \/ ResolveMemberBase
    \/ ResolveMemberRet
    \/ ResolveIndexBase
    \/ ResolveIndexLit
    \/ ResolveIndexRet
    \/ ResolveCallFunc
    \/ ResolveCallRet
    \/ ResolveNotArg
    \/ ResolveNotRet
    \/ ResolveOrLhs
    \/ ResolveOrRhs
    \/ ResolveOrRhsRet
    \/ ResolveOrTernary
    \/ ResolveOrTernaryRet
    \/ ResolveOrCombine
    \/ ResolveAndLhs
    \/ ResolveAndRhs
    \/ ResolveAndRhsRet
    \/ ResolveFinish
    \/ ToLiteralPop
    \/ ToLiteralEmpty
    \/ ToLiteralLiteral
    \/ ToLiteralReference
    \/ ToLiteralBase
    \/ ToLiteralMemberRet
    \/ ToLiteralIndexBaseRet
    \/ ToLiteralIndexLit
    \/ ToLiteralIndexLitRet
    \/ ToLiteralOp
    \/ ToLiteralOpKnown
    \/ ToLiteralOpUnknown

vars == <<ctxVars, resolverVars, restVars>>

Init == InitResolver
Next == NextResolver

\* the JavaScript engine keeps running the call until it returns or throws
Spec == Init /\ [][Next]_vars /\ WF_vars(Next)


-----------------------------------------------------------------------------
(* AnalysisFinalizer: ancestor-field pruning                               *)

\* a call that cannot return has no value
Hung == [hung |-> TRUE]
Returns(value) == [hung |-> FALSE, value |-> value]

AnalyzedField(name, types) == [name |-> name, types |-> types]
AnalyzedClass(name, extends, fields) ==
    [name |-> name, extends |-> extends, fields |-> fields]

\* findMatchingAncestorField, lines 1786-1801: same size, every type contained
SameTypes(types, checkTypes) ==
    /\ Len(checkTypes) = Len(types)
    /\ \A i \in 1..Len(types) : Has(checkTypes, types[i])

\* the two for loops of findMatchingAncestorField reach a `return checkField`
MatchIn(ancestorDefs, field) ==
    \E i \in 1..Len(ancestorDefs) : \E j \in 1..Len(ancestorDefs[i].fields) :
        /\ ancestorDefs[i].fields[j].name = field.name
        /\ SameTypes(field.types, ancestorDefs[i].fields[j].types)

\* `base ??= def.extends` over the definitions, in order
RECURSIVE FirstBase(_)
FirstBase(ancestorDefs) ==
    IF ancestorDefs = <<>> THEN Undefined
    ELSE IF Head(ancestorDefs).extends # Undefined THEN Head(ancestorDefs).extends
    ELSE FirstBase(Tail(ancestorDefs))

\* the while loop of findMatchingAncestorField from `base` on; `visited` are the
\* names it has left without a match.  The loop keeps no such record: coming
\* back to one of them it repeats the same steps for ever ("loops").
RECURSIVE WalkAncestors(_, _, _, _)
WalkAncestors(field, base, map, visited) ==
    IF base \notin DOMAIN map THEN "none"
    ELSE IF MatchIn(map[base], field) THEN "found"
    ELSE LET next == FirstBase(map[base])
         IN IF next = Undefined THEN "none"
            ELSE IF next \in visited \cup {base} THEN "loops"
            ELSE WalkAncestors(field, next, map, visited \cup {base})

findMatchingAncestorField(field, baseCls, map) ==
    WalkAncestors(field, baseCls, map, {})

\* a filter that drops only the first field that is to be removed
removeFirstOnly(fields, toRemove) ==
    LET hits == {j \in 1..Len(fields) : fields[j].name \in toRemove}
    IN IF hits = {} THEN fields
       ELSE LET first == CHOOSE j \in hits : \A k \in hits : j <= k
            IN SubSeq(fields, 1, first - 1) \o SubSeq(fields, first + 1, Len(fields))

\* cls.fields.filter((x) => !toRemove.has(x.name))
filterFields(fields, toRemove) ==
    SelectSeq(fields, LAMBDA x : x.name \notin toRemove)

\* the body of finalizeClassFields' loop for one class: the fields whose name is
\* new to `seen` are looked up, then the class's fields are filtered
PruneClass(cls, map) ==
    LET firsts == {j \in 1..Len(cls.fields) :
                     \A k \in 1..(j - 1) : cls.fields[k].name # cls.fields[j].name}
        found(j) == findMatchingAncestorField(cls.fields[j], cls.extends, map)
        toRemove == {cls.fields[j].name : j \in {k \in firsts : found(k) = "found"}}
    IN IF \E j \in firsts : found(j) = "loops" THEN Hung
       ELSE IF toRemove = {} THEN Returns(cls)
       ELSE Returns([cls EXCEPT !.fields = filterFields(cls.fields, toRemove)])

\* finalizeClassFields(clsMap.get(name), clsMap) from the i-th class on; the
\* classes are the objects the map holds, so each sees the earlier removals
RECURSIVE finalizeClassFields(_, _, _)
finalizeClassFields(name, i, map) ==
    IF i > Len(map[name]) THEN Returns(map)
    ELSE LET cls == map[name][i]
         IN IF cls.extends = Undefined THEN finalizeClassFields(name, i + 1, map)
            ELSE LET pruned == PruneClass(cls, map)
                 IN IF pruned.hung THEN Hung
                    ELSE finalizeClassFields(name, i + 1,
                             [map EXCEPT ![name] = [@ EXCEPT ![i] = pruned.value]])

MaxRuns == 2

\* one iteration of finalize's loop over clsMap.values() (lines 827-829)
FinalizeClassFields ==
    /\ pruneTodo # <<>>
    /\ ~pruneHung
    /\ LET result == finalizeClassFields(Head(pruneTodo), 1, clsMap)
           last == Tail(pruneTodo) = <<>>
       IN IF result.hung
          THEN /\ pruneHung' = TRUE
               /\ UNCHANGED <<clsMap, pruneTodo, pruneRuns, firstPruned>>
          ELSE /\ clsMap' = result.value
               /\ pruneTodo' = Tail(pruneTodo)
               /\ pruneRuns' = IF last THEN pruneRuns + 1 ELSE pruneRuns
               /\ firstPruned' = IF last /\ pruneRuns = 0 THEN result.value ELSE firstPruned
               /\ UNCHANGED pruneHung
    /\ UNCHANGED <<ctxVars, resolverVars, scopeVars, readVars, clsInput>>

\* the orders in which a Map with these keys can have been filled
Orders(keys) ==
    {order \in [1..Cardinality(keys) -> keys] :
        \A i, j \in 1..Cardinality(keys) : i # j => order[i] # order[j]}

\* the pruning loop is run once more over the same map, in any order
PruneAgain ==
    /\ pruneTodo = <<>>
    /\ ~pruneHung
    /\ pruneRuns \in 1..(MaxRuns - 1)
    /\ \E order \in Orders(DOMAIN clsMap) : pruneTodo' = order
    /\ UNCHANGED <<ctxVars, resolverVars, scopeVars, readVars,
                   clsMap, clsInput, pruneRuns, pruneHung, firstPruned>>

ClassA == S("A")
ClassB == S("B")
ClassC == S("C")
FieldX == S("x")
NumberOrNil == AnalyzedField(FieldX, <<TNumber, TNil>>)
NilOrNumber == AnalyzedField(FieldX, <<TNil, TNumber>>)
JustString == AnalyzedField(FieldX, <<TString>>)
FieldLists ==
    {<<>>, <<NumberOrNil>>, <<NilOrNumber, NumberOrNil>>, <<JustString, NumberOrNil>>}
Extends == {Undefined, ClassA, ClassB, ClassC}
ClassesNamed(name) ==
    {AnalyzedClass(name, extends, fields) : extends \in Extends, fields \in FieldLists}
\* a class one module declares and another module adds to
SecondDefinitions(name) ==
    {<<>>, <<AnalyzedClass(name, ClassC, <<NumberOrNil>>)>>}
ClassMaps ==
    {(ClassA :> (<<a>> \o more)) @@ (ClassB :> <<b>>) @@ (ClassC :> <<c>>) :
        a \in ClassesNamed(ClassA), more \in SecondDefinitions(ClassA),
        b \in ClassesNamed(ClassB), c \in ClassesNamed(ClassC)}
    \cup {(ClassA :> <<a>>) @@ (ClassB :> <<b>>) :
        a \in ClassesNamed(ClassA), b \in ClassesNamed(ClassB)}

InitPrune ==
    /\ \E map \in ClassMaps : \E order \in Orders(DOMAIN map) :
          /\ clsMap = map
          /\ clsInput = map
          /\ pruneTodo = order
    /\ pruneRuns = 0
    /\ pruneHung = FALSE
    /\ firstPruned = EmptyMap
    /\ IdleContext
    /\ input = Fresh(LitNil)
    /\ IdleResolver
    /\ IdleScope
    /\ IdleRead

NextPrune ==
    \/ FinalizeClassFields
    \/ PruneAgain

SpecPrune == InitPrune /\ [][NextPrune]_vars

-----------------------------------------------------------------------------
(* Analyzer.read (Analyzer.ts, lines 67-102)                               *)

\* a loop that the first failure ends
stopOnFailure(index, outcome) ==
    IF outcome = "ok" THEN index + 1 ELSE Len(identifiers) + 1

\* the for loop goes on to the next identifier whether the body returned or
\* its catch block logged an error
NextIndex(index, outcome) == index + 1

\* AnalysisReader.readModuleInfo registers the module it has read
ReadModuleInfo(mods, identifier) == MapSet(mods, identifier, Module(<<>>))

\* context.finalizeModules(): finalize sets one AnalyzedModule per context module
finalizeModules(mods) == [id \in DOMAIN mods |-> [id |-> id]]

\* lines 93-99: the modules of the map, in the order of the identifiers
RECURSIVE BuildResult(_, _)
BuildResult(ids, moduleMap) ==
    IF ids = <<>> THEN <<>>
    ELSE (IF Head(ids) \in DOMAIN moduleMap THEN <<moduleMap[Head(ids)]>> ELSE <<>>)
         \o BuildResult(Tail(ids), moduleMap)

\* one iteration of the loop at lines 71-87
ReadModule ==
    /\ ~returned.done
    /\ readIndex \in 1..Len(identifiers)
    /\ LET identifier == identifiers[readIndex]
       IN IF identifier \in fileSet
          THEN /\ readLog' = Append(readLog, "duplicate")
               /\ readIndex' = NextIndex(readIndex, "duplicate")
               /\ UNCHANGED <<fileSet, modules>>
          ELSE /\ fileSet' = fileSet \cup {identifier}
               /\ \E outcome \in {"ok", "parse"} :
                     /\ readLog' = Append(readLog, outcome)
                     /\ readIndex' = NextIndex(readIndex, outcome)
                     /\ modules' = IF outcome = "ok"
                                   THEN ReadModuleInfo(modules, identifier)
                                   ELSE modules
    /\ UNCHANGED <<definitions, idToTableInfo, idToFunctionInfo, parameterToFunctionId,
                   usageTypes, aliasMap, resolverVars, pruneVars, scopeVars,
                   identifiers, returned, rosetta, stub>>

\* lines 89-101, after the loop
ReadFinish ==
    /\ ~returned.done
    /\ readIndex > Len(identifiers)
    /\ returned' = [done |-> TRUE,
                    modules |-> BuildResult(identifiers, finalizeModules(modules))]
    /\ UNCHANGED <<ctxVars, resolverVars, pruneVars, scopeVars,
                   identifiers, readIndex, fileSet, readLog, rosetta, stub>>

MaxModules == 4
ModuleIds == {S("a"), S("b"), S("c")}
ReadOrders == UNION {[1..n -> ModuleIds] : n \in 0..MaxModules}

InitRead ==
    /\ identifiers \in ReadOrders
    /\ readIndex = 1
    /\ fileSet = {}
    /\ readLog = <<>>
    /\ returned = NotReturned
    /\ IdleAnnotate
    /\ IdleContext
    /\ input = Fresh(LitNil)
    /\ IdleResolver
    /\ IdlePrune
    /\ IdleScope

NextRead ==
    \/ ReadModule
    \/ ReadFinish

SpecRead == InitRead /\ [][NextRead]_vars

-----------------------------------------------------------------------------
(* AnalysisContext.setFunctionInfo and the closure-class detector          *)

\* ---- the AST nodes of luaparse the detector looks at
NoNode == [type |-> "none"]
Identifier(name) == [type |-> "Identifier", name |-> name]
MemberExpression(base, indexer, name) ==
    [type |-> "MemberExpression", base |-> base, indexer |-> indexer,
     identifier |-> Identifier(name)]
CallExpression(base, arguments) ==
    [type |-> "CallExpression", base |-> base, arguments |-> arguments]
\* `id` is the table id getTableId gives the constructor
TableConstructorExpression(id, fields) ==
    [type |-> "TableConstructorExpression", id |-> id, fields |-> fields]
TableKeyString(name) == [type |-> "TableKeyString", key |-> Identifier(name)]
NumericLiteral == [type |-> "NumericLiteral"]
LocalStatement(variables, init) ==
    [type |-> "LocalStatement", variables |-> variables, init |-> init]
CallStatement(expression) == [type |-> "CallStatement", expression |-> expression]
ReturnStatement == [type |-> "ReturnStatement"]
FunctionDeclaration(identifier, parameters, body) ==
    [type |-> "FunctionDeclaration", identifier |-> identifier,
     parameters |-> parameters, body |-> body]

LuaMember(base, member, indexer) ==
    [type |-> "member", base |-> base, member |-> member, indexer |-> indexer]

\* ---- LuaScope: the id of a local ends in [name], a self parameter is
\* registered under the name self
LocalId(n, name) == <<"@", "local", n, "[", name, "]">>
localIdToName(id) ==
    IF StartsWith(id, SelfPrefix) THEN S("self")
    ELSE IF Len(id) >= 4 /\ id[1] = "@" /\ id[Len(id)] = "]" /\ id[Len(id) - 2] = "["
    THEN <<id[Len(id) - 1]>>
    ELSE Undefined
getLocalId(scope, name) == MapGet(scope, name, Undefined)

\* the part of a path after its last '/'
Basename(path) ==
    LET slashes == {i \in 1..Len(path) : path[i] = "/"}
        lastSlash == IF slashes = {} THEN 0
                     ELSE CHOOSE i \in slashes : \A j \in slashes : j <= i
    IN SubSeq(path, lastSlash + 1, Len(path))

CurrentModule == <<"shared", "/", "mod">>

\* typeResolver.resolve({ expression }) for a literal, for a reference all of
\* whose definitions are literals (a require of an unread module adds nothing),
\* or for an `or` of two of these
RECURSIVE DefinitionTypes(_)
RECURSIVE ResolveFlat(_)
DefinitionTypes(defs) ==
    IF defs = <<>> THEN <<>>
    ELSE AddAll(IF Head(defs).expression.type = "literal"
                THEN LiteralTypes(Head(defs).expression) ELSE <<>>,
                DefinitionTypes(Tail(defs)))
ResolveFlat(expression) ==
    IF expression.type = "literal" THEN LiteralTypes(expression)
    ELSE IF expression.type = "reference"
    THEN BoolCollapse(AddAll(ReferenceSeed(expression.id),
                             DefinitionTypes(getDefinitions(expression.id))))
    ELSE IF expression.type = "operation" /\ expression.operator = "or"
    THEN BoolCollapse(OrTypes(expression.arguments[1],
                              ResolveFlat(expression.arguments[1]),
                              ResolveFlat(expression.arguments[2])))
    ELSE <<>>

checkHasSetmetatableInstance(n) ==
    \E i \in 1..Len(n.body) :
        LET child == n.body[i]
        IN /\ child.type = "CallStatement"
           /\ child.expression.type = "CallExpression"
           /\ child.expression.base.type = "Identifier"
           /\ child.expression.base.name = S("setmetatable")
           /\ Len(child.expression.arguments) >= 2
           /\ LET meta == child.expression.arguments[2]
              IN \/ meta.type = "Identifier"
                 \/ /\ meta.type = "TableConstructorExpression"
                    /\ \E k \in 1..Len(meta.fields) :
                          /\ meta.fields[k].type = "TableKeyString"
                          /\ meta.fields[k].key.name = S("__index")

\* checkClosureClass, lines 1429-1475: the search for `local self = ...`
NoBinding ==
    [threw |-> FALSE, classTable |-> NoNode, baseClass |-> Undefined, selfName |-> S("self")]
RECURSIVE SelfBinding(_, _)
SelfBinding(body, i) ==
    IF i > Len(body) THEN NoBinding
    ELSE LET child == body[i]
             name == IF child.variables = <<>> THEN Undefined
                     ELSE child.variables[1].name
         IN IF child.type # "LocalStatement" THEN SelfBinding(body, i + 1)
            ELSE IF name # S("self") /\ name # S("publ") THEN SelfBinding(body, i + 1)
            \* child.init[0] is undefined: reading init.type is a TypeError
            ELSE IF child.init = <<>> THEN [NoBinding EXCEPT !.threw = TRUE]
            ELSE LET init == child.init[1]
                     base == IF init.type = "CallExpression" THEN init.base ELSE NoNode
                 IN IF init.type = "TableConstructorExpression"
                    THEN [NoBinding EXCEPT !.classTable = init, !.selfName = name]
                    ELSE IF name = S("publ") THEN SelfBinding(body, i + 1)
                    ELSE IF base.type # "MemberExpression" THEN SelfBinding(body, i + 1)
                    ELSE IF base.identifier.name # S("new") THEN SelfBinding(body, i + 1)
                    ELSE IF base.base.type # "Identifier" THEN SelfBinding(body, i + 1)
                    ELSE [NoBinding EXCEPT !.baseClass = base.base.name, !.selfName = name]

\* lines 1482-1497
FoundFunction(body, selfName) ==
    \E i \in 1..Len(body) :
        /\ body[i].type = "FunctionDeclaration"
        /\ body[i].identifier.type = "MemberExpression"
        /\ body[i].identifier.base.type = "Identifier"
        /\ body[i].identifier.base.name = selfName

ClassInfo(name, tableId, base, generated) ==
    [name |-> name, tableId |-> tableId, definingModule |-> CurrentModule,
     base |-> base, generated |-> generated]
Partial(kind, info) == [type |-> "partial", kind |-> kind, info |-> info]

\* newTableId(): an id no table constructor has
NewTable == TableId("(9)")

\* what a detector hands back: did it throw, its return value, and the table
\* map, scope items and function info as it left them
Detected(thrown, added, tables, items, info) ==
    [threw |-> thrown, added |-> added, tables |-> tables, items |-> items, info |-> info]

\* checkClosureClass(scope, node, info, identExpr), lines 1411-1579
checkClosureClass(n, info, identExpr) ==
    LET base == identExpr.base
        binding == SelfBinding(n.body, 1)
        tableId == IF binding.classTable.type # "none" THEN binding.classTable.id
                   ELSE NewTable
        isNew == identExpr.member = S("new") \/ identExpr.member = S("getInstance")
        localName == localIdToName(base.id)
        name == IF isNew
                THEN (IF localName # Undefined THEN localName ELSE base.id)
                ELSE Basename(CurrentModule)
        types == ResolveFlat(base)
        isTable == Len(types) = 1 /\ StartsWith(types[1], TablePrefix)
        collides == isNew /\ isTable /\ getTableInfo(types[1]).className = name
        ensured == IF isTable THEN EnsureTables(idToTableInfo, <<tableId, types[1]>>)
                   ELSE EnsureTable(idToTableInfo, tableId)
        marked == IF collides THEN [ensured EXCEPT ![types[1]].emitAsTable = TRUE]
                  ELSE ensured
    IN IF base.type # "reference" \/ checkHasSetmetatableInstance(n)
       THEN Detected(FALSE, FALSE, idToTableInfo, scopeItems, info)
       ELSE IF binding.threw THEN Detected(TRUE, FALSE, idToTableInfo, scopeItems, info)
       ELSE IF (binding.baseClass = Undefined /\ binding.classTable.type = "none")
               \/ ~FoundFunction(n.body, binding.selfName)
       THEN Detected(FALSE, FALSE, idToTableInfo, scopeItems, info)
       ELSE IF getTableInfo(tableId).className # Undefined
       THEN Detected(FALSE, FALSE, EnsureTable(idToTableInfo, tableId), scopeItems, info)
       ELSE Detected(FALSE, TRUE,
                [marked EXCEPT ![tableId].className = name],
                Append(scopeItems,
                       Partial("classInfo",
                               ClassInfo(name, tableId, binding.baseClass, TRUE))),
                [info EXCEPT
                    !.parameterTypes = IF identExpr.indexer = ":"
                                       THEN Append(@, types) ELSE @,
                    !.returnTypes = Append(@, <<tableId>>),
                    !.isConstructor = TRUE])

\* getFieldClassName(scope, expr), lines 1737-1761: the names of a chain of
\* members down to a reference, joined by '.'
RECURSIVE getFieldClassName(_)
getFieldClassName(expr) ==
    IF expr.type # "member" THEN Undefined
    ELSE IF expr.base.type = "reference"
    THEN LET localName == localIdToName(expr.base.id)
         IN (IF localName # Undefined THEN localName ELSE expr.base.id)
            \o <<".">> \o expr.member
    ELSE IF expr.base.type # "member" THEN Undefined
    ELSE LET parent == getFieldClassName(expr.base)
         IN IF parent = Undefined THEN Undefined ELSE parent \o <<".">> \o expr.member

\* addImpliedClass(scope, base, tableId, tableInfo), lines 994-1038
addImpliedClass(tables, items, base, tableId) ==
    LET original == tables[tableId].originalName
        localName == localIdToName(base.id)
        name == IF original # Undefined THEN original
                ELSE IF base.type = "reference"
                THEN (IF localName # Undefined THEN localName ELSE base.id)
                ELSE IF base.type = "member" THEN getFieldClassName(base)
                ELSE Undefined
        generated == IF base.type = "reference"
                     THEN original # Undefined \/ localName # Undefined
                     ELSE TRUE
    IN IF name = Undefined THEN [tables |-> tables, items |-> items]
       ELSE [tables |-> [tables EXCEPT ![tableId].className = name],
             items |-> Append(items,
                          Partial("classInfo",
                                  ClassInfo(name, tableId, Undefined, generated)))]

\* checkClassMethod(scope, info, identExpr), lines 1342-1373
checkClassMethod(info, identExpr) ==
    LET types == ResolveFlat(identExpr.base)
        isTable == StartsWith(types[1], TablePrefix)
        withTable == IF isTable THEN EnsureTable(idToTableInfo, types[1])
                     ELSE idToTableInfo
        typed == [info EXCEPT !.parameterTypes = Append(@, types)]
        built == [typed EXCEPT !.returnTypes = Append(@, types), !.isConstructor = TRUE]
        implied == addImpliedClass(withTable, scopeItems, identExpr.base, types[1])
    IN IF Len(types) # 1 THEN Detected(FALSE, FALSE, idToTableInfo, scopeItems, info)
       ELSE IF identExpr.member # S("new")
       THEN Detected(FALSE, FALSE, withTable, scopeItems, typed)
       ELSE IF ~isTable \/ withTable[types[1]].className # Undefined
       THEN Detected(FALSE, FALSE, withTable, scopeItems, built)
       ELSE Detected(FALSE, FALSE, implied.tables, implied.items, built)

\* the function whose declaration the reader hands to setFunctionInfo
DeclaredFunction == FunctionId("(7)")

\* parameterToFunctionId.set(param, functionId) for every parameter
RECURSIVE SetAll(_, _, _)
SetAll(map, keys, value) ==
    IF keys = <<>> THEN map ELSE SetAll(MapSet(map, Head(keys), value), Tail(keys), value)

IsMethod(identExpr) == identExpr.type = "member" /\ identExpr.indexer = ":"

\* setFunctionInfo(functionId, scope, node, identExpr), lines 593-612: the info is
\* reset and the declaration is tried as the constructor of a closure class
SetFunctionInfo ==
    /\ phase = "read"
    /\ threw = Undefined
    /\ DeclaredFunction \notin DOMAIN idToFunctionInfo
    /\ LET identExpr == node.identExpr
           selfId == IF getLocalId(node.scope, S("self")) # Undefined
                     THEN getLocalId(node.scope, S("self")) ELSE SelfId
           reset == [getFunctionInfo(DeclaredFunction) EXCEPT
                        !.parameters = IF IsMethod(identExpr) THEN <<selfId>> ELSE <<>>,
                        !.parameterTypes = <<>>, !.returnTypes = <<>>,
                        !.identifierExpression = identExpr]
           closure == IF identExpr.type = "member"
                      THEN checkClosureClass(node.declaration, reset, identExpr)
                      ELSE Detected(FALSE, FALSE, idToTableInfo, scopeItems, reset)
       IN /\ threw' = IF closure.threw THEN S("TypeError") ELSE threw
          /\ phase' = IF closure.threw THEN "failed"
                      ELSE IF ~closure.added /\ IsMethod(identExpr) THEN "method"
                      ELSE "parameters"
          /\ idToFunctionInfo' = MapSet(idToFunctionInfo, DeclaredFunction, closure.info)
          /\ idToTableInfo' = closure.tables
          /\ scopeItems' = closure.items
    /\ UNCHANGED <<definitions, parameterToFunctionId, usageTypes, modules, aliasMap,
                   resolverVars, pruneVars, readVars, node, analyzed, output>>

\* setFunctionInfo, lines 614-616: a method that declared no closure class
SetFunctionInfoMethod ==
    /\ phase = "method"
    /\ LET method == checkClassMethod(idToFunctionInfo[DeclaredFunction], node.identExpr)
       IN /\ idToFunctionInfo' = MapSet(idToFunctionInfo, DeclaredFunction, method.info)
          /\ idToTableInfo' = method.tables
          /\ scopeItems' = method.items
    /\ phase' = "parameters"
    /\ UNCHANGED <<definitions, parameterToFunctionId, usageTypes, modules, aliasMap,
                   resolverVars, pruneVars, readVars, node, threw, analyzed, output>>

\* setFunctionInfo, lines 619-641: the declared parameters and their names
SetFunctionInfoParameters ==
    /\ phase = "parameters"
    /\ LET declared == node.declaration.parameters
           paramIds == SelectSeq([i \in 1..Len(declared) |->
                                     getLocalId(node.scope, declared[i])],
                                 LAMBDA id : id # Undefined)
           parameters == idToFunctionInfo[DeclaredFunction].parameters \o paramIds
       IN /\ idToFunctionInfo' =
                [idToFunctionInfo EXCEPT
                    ![DeclaredFunction].parameters = parameters,
                    ![DeclaredFunction].parameterNames =
                        [i \in 1..Len(parameters) |->
                            IF localIdToName(parameters[i]) # Undefined
                            THEN localIdToName(parameters[i]) ELSE parameters[i]]]
          /\ parameterToFunctionId' =
                SetAll(parameterToFunctionId, parameters, DeclaredFunction)
    /\ phase' = "read"
    /\ UNCHANGED <<definitions, idToTableInfo, usageTypes, modules, aliasMap,
                   resolverVars, pruneVars, readVars, node, threw, scopeItems,
                   analyzed, output>>

\* ---- function declarations
NameSelf == S("self")
NamePubl == S("publ")
ClosureTable == TableId("(2)")
NewCall(base) == CallExpression(MemberExpression(Identifier(base), ".", S("new")), <<>>)
Statements ==
    {LocalStatement(<<Identifier(name)>>, init) :
        name \in {NameSelf, NamePubl},
        init \in {<<>>, <<TableConstructorExpression(ClosureTable, <<>>)>>,
                  <<NewCall(S("Base"))>>}}
    \cup {LocalStatement(<<Identifier(S("n"))>>, <<>>),
          FunctionDeclaration(MemberExpression(Identifier(NameSelf), ".", S("go")), <<>>, <<>>),
          FunctionDeclaration(MemberExpression(Identifier(NamePubl), ":", S("go")), <<>>, <<>>),
          CallStatement(CallExpression(Identifier(S("setmetatable")),
                                       <<Identifier(NameSelf), Identifier(S("Meta"))>>)),
          CallStatement(CallExpression(Identifier(S("setmetatable")),
              <<Identifier(NameSelf),
                TableConstructorExpression(TableId("(3)"), <<TableKeyString(S("__index"))>>)>>)),
          ReturnStatement}
MaxBody == 2
Bodies == UNION {[1..n -> Statements] : n \in 0..MaxBody}

NameFoo == S("Foo")
LocalFoo == LocalId("(1)", "Foo")
IdentifierExpressions ==
    {LuaMember(Reference(base), member, indexer) :
        base \in {NameFoo, LocalFoo}, member \in {S("new"), S("create")},
        indexer \in {".", ":"}}
    \cup {LuaMember(LuaMember(Reference(NameFoo), S("Sub"), "."), S("new"), ":"),
          Reference(NameFoo), NoExpression}
ParameterLists == {<<>>, <<S("a")>>, <<S("a"), S("...")>>}
FunctionScope == (S("a") :> Param1)

Declarations(bodies) ==
    {[declaration |-> FunctionDeclaration(NoNode, parameters, body),
      identExpr |-> identExpr, scope |-> FunctionScope] :
        parameters \in ParameterLists, body \in bodies,
        identExpr \in IdentifierExpressions}

\* Foo is unknown, or a table, or a table already declared a class
FooContexts ==
    {[definitions |-> EmptyMap, idToTableInfo |-> EmptyMap],
     [definitions |-> (NameFoo :> <<Def(TableLiteral(Table1))>>)
                      @@ (LocalFoo :> <<Def(TableLiteral(Table1))>>),
      idToTableInfo |-> (Table1 :> NewTableInfo(Table1))],
     [definitions |-> (NameFoo :> <<Def(TableLiteral(Table1))>>),
      idToTableInfo |-> (Table1 :> [NewTableInfo(Table1) EXCEPT !.className = NameFoo])]}

InitScopeWith(declarations) ==
    /\ node \in declarations
    /\ \E context \in FooContexts :
          /\ definitions = context.definitions
          /\ idToTableInfo = context.idToTableInfo
    /\ idToFunctionInfo = EmptyMap
    /\ parameterToFunctionId = EmptyMap
    /\ usageTypes = EmptyMap
    /\ modules = EmptyMap
    /\ aliasMap = EmptyMap
    /\ threw = Undefined
    /\ scopeItems = <<>>
    /\ phase = "read"
    /\ analyzed = Undefined
    /\ output = NoOutput
    /\ input = Fresh(LitNil)
    /\ IdleResolver
    /\ IdlePrune
    /\ IdleRead

InitClosure == InitScopeWith(Declarations(Bodies))

NextClosure ==
    \/ SetFunctionInfo
    \/ SetFunctionInfoMethod
    \/ SetFunctionInfoParameters

SpecClosure == InitClosure /\ [][NextClosure]_vars

-----------------------------------------------------------------------------
(* AnalysisContext.addAssignment and resolveItems for a module, and        *)
(* AnalysisFinalizer.finalize                                              *)

At == <<"@">>
TUnknown == S("unknown")

\* ---- the items a module's statements give addAssignment.  AnalysisReader is
\* not among the sources: a require binding and a function definition that is
\* not local carry the global name they assign (Annotator.ts, line 1019)
Assignment(lhs, rhs) == [type |-> "assignment", lhs |-> lhs, rhs |-> rhs]
RequireAssignment(lhs, module) ==
    [type |-> "requireAssignment", lhs |-> lhs, rhs |-> Require(module)]
FunctionDefinition(expression, id, isLocal) ==
    [type |-> "functionDefinition", lhs |-> expression, rhs |-> FunctionLiteral(id),
     id |-> id, isLocal |-> isLocal]

\* a global assignment that adds no partial item
addNoPartialItem(items, item, lhs, rhs) ==
    [tables |-> idToTableInfo, items |-> items, definitions |-> definitions,
     tableId |-> Undefined]

\* checkClassTable(expr), lines 1376-1409
RECURSIVE checkClassTable(_)
checkClassTable(expr) ==
    LET typeSet == ResolveFlat(expr)
        resolved == IF Len(typeSet) # 1 \/ ~StartsWith(typeSet[1], TablePrefix)
                    THEN Undefined ELSE typeSet[1]
        orLhs == expr.arguments[1]
        orRhs == expr.arguments[2]
        orRhsFields == IF orRhs.type = "literal" /\ "fields" \in DOMAIN orRhs
                       THEN orRhs.fields ELSE <<>>
    IN IF expr.type = "operation" /\ expr.operator = "call" THEN Undefined
       ELSE IF /\ expr.type = "operation" /\ expr.operator = "or"
               /\ orLhs.type = "reference" /\ Len(orRhsFields) = 0
               /\ checkClassTable(orLhs) # Undefined
       THEN checkClassTable(orLhs)
       ELSE resolved

\* removeEmptyDefinition(name), lines 1779-1816, in a module that is the only one
removeEmptyDefinition(tables, name) ==
    LET defs == getDefinitions(name)
        expr == defs[1].expression
        unchanged == [tables |-> tables, definitions |-> definitions]
    IN IF Len(defs) # 1 THEN unchanged
       ELSE IF expr.type # "literal" THEN unchanged
       ELSE IF expr.luaType # TTable \/ expr.tableId = Undefined THEN unchanged
       ELSE IF MapGet(tables, expr.tableId, NewTableInfo(expr.tableId)).definitions
               # EmptyMap
       THEN unchanged
       ELSE [tables |-> [EnsureTable(tables, expr.tableId) EXCEPT
                            ![expr.tableId].isEmptyClass = TRUE],
             definitions |-> [definitions EXCEPT ![name] = <<>>]]

\* what tryAddPartialItem leaves behind, and the table id it returns
Tried(tables, items, defs, tableId) ==
    [tables |-> tables, items |-> items, definitions |-> defs, tableId |-> tableId]

\* a global assignment that names the table after its left-hand side whatever
\* name the table has
renamePartialItem(items, item, lhs, rhs) ==
    LET tableId == checkClassTable(rhs)
        tableInfo == getTableInfo(tableId)
        ensured == EnsureTable(idToTableInfo, tableId)
        named == [ensured EXCEPT ![tableId].className = lhs.id]
        removed == removeEmptyDefinition(named, lhs.id)
        rhsTypes == ResolveFlat(item.rhs)
    IN IF item.type = "requireAssignment"
       THEN Tried(idToTableInfo,
                  Append(items, Partial("requireInfo",
                                        [name |-> lhs.id, module |-> item.rhs.module])),
                  definitions, Undefined)
       ELSE IF item.type = "functionDefinition"
       THEN Tried(idToTableInfo,
                  IF item.isLocal THEN items
                  ELSE Append(items, Partial("functionInfo",
                                             [name |-> lhs.id, functionId |-> item.id])),
                  definitions, Undefined)
       ELSE IF StartsWith(lhs.id, At)
       THEN Tried(idToTableInfo, items, definitions, Undefined)
       ELSE IF tableId # Undefined
       THEN IF tableInfo.className # Undefined /\ ~tableInfo.isEmptyClass
               /\ rhs.type # "literal" /\ rhs.type # "operation"
            THEN Tried(ensured,
                       Append(items, Partial("fieldInfo",
                                  [name |-> lhs.id, types |-> <<tableInfo.className>>])),
                       definitions, Undefined)
            ELSE Tried(removed.tables,
                       Append(items, Partial("classInfo",
                                  ClassInfo(lhs.id, tableId, Undefined, FALSE))),
                       removed.definitions, tableId)
       ELSE IF Len(rhsTypes) = 1 /\ StartsWith(rhsTypes[1], FunctionPrefix)
       THEN Tried(idToTableInfo,
                  Append(items, Partial("functionInfo",
                                        [name |-> lhs.id, functionId |-> rhsTypes[1]])),
                  definitions, Undefined)
       ELSE Tried(idToTableInfo, items, definitions, Undefined)

\* tryAddPartialItem(scope, item, lhs, rhs), lines 1818-1950, in the scope of a
\* module and for a right-hand side that is no call (so no derive call)
tryAddPartialItem(items, item, lhs, rhs) ==
    LET tableId == checkClassTable(rhs)
        tableInfo == getTableInfo(tableId)
        ensured == EnsureTable(idToTableInfo, tableId)
        named == [ensured EXCEPT ![tableId].className =
                                     IF @ = Undefined THEN lhs.id ELSE @]
        removed == removeEmptyDefinition(named, lhs.id)
        rhsTypes == ResolveFlat(item.rhs)
    IN IF item.type = "requireAssignment"
       THEN Tried(idToTableInfo,
                  Append(items, Partial("requireInfo",
                                        [name |-> lhs.id, module |-> item.rhs.module])),
                  definitions, Undefined)
       ELSE IF item.type = "functionDefinition"
       THEN Tried(idToTableInfo,
                  IF item.isLocal THEN items
                  ELSE Append(items, Partial("functionInfo",
                                             [name |-> lhs.id, functionId |-> item.id])),
                  definitions, Undefined)
       ELSE IF StartsWith(lhs.id, At)
       THEN Tried(idToTableInfo, items, definitions, Undefined)
       ELSE IF tableId # Undefined
       THEN IF tableInfo.className # Undefined /\ ~tableInfo.isEmptyClass
               /\ rhs.type # "literal" /\ rhs.type # "operation"
            THEN Tried(ensured,
                       Append(items, Partial("fieldInfo",
                                  [name |-> lhs.id, types |-> <<tableInfo.className>>])),
                       definitions, Undefined)
            ELSE Tried(removed.tables,
                       Append(items, Partial("classInfo",
                                  ClassInfo(lhs.id, tableId, Undefined, FALSE))),
                       removed.definitions, tableId)
       ELSE IF Len(rhsTypes) = 1 /\ StartsWith(rhsTypes[1], FunctionPrefix)
       THEN Tried(idToTableInfo,
                  Append(items, Partial("functionInfo",
                                        [name |-> lhs.id, functionId |-> rhsTypes[1]])),
                  definitions, Undefined)
       ELSE Tried(idToTableInfo, items, definitions, Undefined)

\* addDefinition(scope, id, expression, index), lines 851-869
addDefinition(defs, id, expression) ==
    MapSet(defs, id, Append(MapGet(defs, id, <<>>), Def(expression)))

IsAssignment(item) ==
    item.type \in {"assignment", "requireAssignment", "functionDefinition"}

\* ---- resolveItems(scope), lines 391-494, for items that are assignments and
\* partial items.  The partial items of a function's scope reach the module as
\* a 'resolved' item whose classes, functions, requires and fields are taken
\* over (lines 438-442); they are kept in the one list of items here.
Infos(items, kind) ==
    LET chosen == SelectSeq(items, LAMBDA item : item.type = "partial" /\ item.kind = kind)
    IN [i \in 1..Len(chosen) |-> chosen[i].info]

resolveItems(items) ==
    [classes |-> SelectSeq(Infos(items, "classInfo"),
                           LAMBDA info : ~getTableInfo(info.tableId).isEmptyClass),
     functions |-> Infos(items, "functionInfo"),
     requires |-> Infos(items, "requireInfo"),
     fields |-> Infos(items, "fieldInfo"),
     returns |-> <<>>]

\* ---- AnalysisFinalizer
Primitives == {TNil, TBoolean, TString, TNumber, TTable, TFunction}

\* finalizeTypes with its `discard IDs` step left out: every other id is kept
keepInternalIds(types) ==
    IF Has(types, TUnknown) THEN (IF Has(types, TNil) THEN <<TNil>> ELSE <<>>)
    ELSE types

\* a narrowing failure that leaves nothing but table
onlyTable(types) == <<TTable>>

\* finalizeTypes, lines 1710-1734: what one type is mapped to (nothing, or a name)
finalizeType(type) ==
    IF type = TTrue \/ type = TFalse THEN <<TBoolean>>
    ELSE IF StartsWith(type, TablePrefix)
    THEN (IF getTableInfo(type).emitAsTable THEN <<TTable>>
          ELSE IF getTableInfo(type).className # Undefined
          THEN <<getTableInfo(type).className>>
          ELSE <<TTable>>)
    ELSE IF StartsWith(type, FunctionPrefix) THEN <<TFunction>>
    ELSE IF StartsWith(type, At) THEN <<>>
    ELSE <<type>>

RECURSIVE MapTypes(_)
MapTypes(types) ==
    IF types = <<>> THEN <<>>
    ELSE AddAll(MapTypes(SubSeq(types, 1, Len(types) - 1)),
                finalizeType(types[Len(types)]))

\* finalizeTypes(types), lines 1697-1763
finalizeTypes(types) ==
    LET finalizedTypes == MapTypes(types)
        classTypes == SelectSeq(finalizedTypes, LAMBDA type : type \notin Primitives)
    IN IF Has(types, TUnknown) THEN (IF Has(types, TNil) THEN <<TNil>> ELSE <<>>)
       ELSE IF Len(classTypes) > 2
       THEN Add(SelectSeq(finalizedTypes, LAMBDA type : type \in Primitives), TTable)
       ELSE finalizedTypes

\* finalizeFunction(id, name), lines 1432-1480; no return expression is recorded
finalizeFunction(id, name) ==
    LET info == getFunctionInfo(id)
        isMethod == IsMethod(info.identifierExpression)
        kept == IF isMethod THEN 2..Len(info.parameters) ELSE 1..Len(info.parameters)
        first == IF isMethod THEN 1 ELSE 0
    IN [name |-> name,
        parameters |->
            [k \in 1..Cardinality(kept) |->
                [name |-> info.parameterNames[k + first],
                 types |-> finalizeTypes(IF k + first <= Len(info.parameterTypes)
                                         THEN info.parameterTypes[k + first]
                                         ELSE <<>>)]],
        returnTypes |-> [i \in 1..Len(info.returnTypes) |->
                            finalizeTypes(info.returnTypes[i])],
        isMethod |-> isMethod,
        isConstructor |-> info.isConstructor \/ name = S("new")]

\* finalizeRequire(req), lines 1485-1505
finalizeRequire(req) ==
    [name |-> req.name, types |-> <<>>,
     expression |-> Operation("call", <<Reference(S("require")),
                                        Literal(TString, <<"\"">> \o req.module \o <<"\"">>)>>)]

\* finalizeClass(cls, refs), lines 840-1203, for a table nothing was assigned into
finalizeClass(cls) ==
    [name |-> cls.name, extends |-> cls.base,
     isTable |-> getTableInfo(cls.tableId).emitAsTable,
     local |-> cls.generated, fields |-> <<>>]

\* finalize(), lines 721-833, for the one module; its classes have no field to prune
finalize(mod) ==
    LET finalized == [i \in 1..Len(mod.classes) |-> finalizeClass(mod.classes[i])]
        requires == [i \in 1..Len(mod.requires) |-> finalizeRequire(mod.requires[i])]
    IN [id |-> CurrentModule,
        classes |-> SelectSeq(finalized, LAMBDA cls : ~cls.isTable),
        tables |-> SelectSeq(finalized, LAMBDA cls : cls.isTable),
        functions |-> [i \in 1..Len(mod.functions) |->
                          finalizeFunction(mod.functions[i].functionId,
                                           mod.functions[i].name)],
        fields |-> requires \o mod.fields,
        returns |-> <<>>]

\* refs.get(id) === null: the local has more than one definition
Null == [type |-> "null"]

FunctionValue(info) ==
    [type |-> "literal", luaType |-> TFunction, isMethod |-> info.isMethod,
     parameters |-> info.parameters, returnTypes |-> info.returnTypes]

\* id.indexOf('['), 0 when there is none
IndexOfBracket(id) ==
    IF \E i \in 1..Len(id) : id[i] = "["
    THEN CHOOSE i \in 1..Len(id) : id[i] = "[" /\ \A j \in 1..(i - 1) : id[j] # "["
    ELSE 0

\* finalizeExpression(expression, refs), lines 1309-1425: references, literals that
\* are no table, and members of what is no table literal
RECURSIVE finalizeExpression(_, _)
finalizeExpression(expression, refs) ==
    IF expression.type = "reference"
    THEN IF expression.id \notin DOMAIN refs
         THEN Reference(IF IndexOfBracket(expression.id) # 0
                        THEN SubSeq(expression.id, IndexOfBracket(expression.id) + 1,
                                    Len(expression.id) - 1)
                        ELSE IF StartsWith(expression.id, SelfPrefix) THEN S("self")
                        ELSE expression.id)
         ELSE IF refs[expression.id] = Null THEN Literal(TNil, TNil)
         ELSE finalizeExpression(refs[expression.id], refs)
    ELSE IF expression.type = "literal"
    THEN IF expression.functionId # Undefined
         THEN FunctionValue(finalizeFunction(expression.functionId, <<"@", "field">>))
         ELSE expression
    ELSE IF expression.type = "member"
    THEN [expression EXCEPT !.base = finalizeExpression(expression.base, refs)]
    ELSE expression

\* ---- actions
MaxAssignments == 1
NameBar == S("Bar")
LocalBar == LocalId("(2)", "Bar")
BarTable == TableId("(4)")

\* the right-hand sides of the module's assignments
RightHandSides ==
    {TableLiteral(Table1), TableLiteral(BarTable), FunctionLiteral(DeclaredFunction),
     LitNumber, Reference(NameFoo)}

AssignmentItems ==
    {Assignment(Reference(lhs), rhs) :
        lhs \in {NameBar, LocalBar, NameFoo}, rhs \in RightHandSides}
    \cup {RequireAssignment(Reference(NameBar), S("lib")),
          FunctionDefinition(Reference(NameBar), DeclaredFunction, FALSE),
          FunctionDefinition(Reference(LocalBar), DeclaredFunction, TRUE)}

\* addAssignment(scope, item), lines 142-181: a reference on the left
AddAssignment ==
    /\ phase = "read"
    /\ Len(SelectSeq(scopeItems, IsAssignment)) < MaxAssignments
    /\ \E item \in AssignmentItems :
          LET tried == tryAddPartialItem(Append(scopeItems, item), item, item.lhs, item.rhs)
              rhs == IF tried.tableId # Undefined THEN TableLiteral(tried.tableId)
                     ELSE item.rhs
          IN /\ scopeItems' = tried.items
             /\ idToTableInfo' = tried.tables
             /\ definitions' = addDefinition(tried.definitions, item.lhs.id, rhs)
    /\ UNCHANGED <<idToFunctionInfo, parameterToFunctionId, usageTypes, modules, aliasMap,
                   resolverVars, pruneVars, readVars, node, threw, phase, analyzed,
                   output>>

\* resolveItems(scope) for the module's scope, then setModule (lines 743-748)
ResolveItems ==
    /\ phase = "read"
    /\ modules' = MapSet(modules, CurrentModule, resolveItems(scopeItems))
    /\ phase' = "resolved"
    /\ UNCHANGED <<definitions, idToTableInfo, idToFunctionInfo, parameterToFunctionId,
                   usageTypes, aliasMap, resolverVars, pruneVars, readVars, node, threw,
                   scopeItems, analyzed, output>>

\* finalize()
Finalize ==
    /\ phase = "resolved"
    /\ analyzed' = finalize(modules[CurrentModule])
    /\ phase' = "finalized"
    /\ UNCHANGED <<ctxVars, resolverVars, pruneVars, readVars, node, threw, scopeItems,
                   output>>

\* the type sets finalizeTypes is given
RawTypes ==
    {TUnknown, TNil, TTrue, TNumber, Table1, ClosureTable, DeclaredFunction,
     Param1, SelfId, InstanceMark, NameFoo}
MaxTypes == 2
TypeSets ==
    {types \in UNION {[1..n -> RawTypes] : n \in 0..MaxTypes} :
        \A i, j \in 1..Len(types) : i # j => types[i] # types[j]}
    \cup {<<NameFoo, NameBar, S("Base"), Table1>>, <<NameFoo, NameBar, S("Base"), SelfId>>,
          <<TNil, NameFoo, NameBar, S("Base")>>,
          <<NameFoo, TNumber, DeclaredFunction, NameBar, TTrue, S("Base")>>,
          <<TUnknown, NameFoo, NameBar, S("Base")>>}

FinalizeTypes ==
    /\ phase = "finalized"
    /\ output = NoOutput
    /\ \E types \in TypeSets :
          output' = [kind |-> "types", given |-> types, types |-> finalizeTypes(types)]
    /\ UNCHANGED <<ctxVars, resolverVars, pruneVars, readVars, node, threw, scopeItems,
                   phase, analyzed>>

\* the expressions finalizeExpression is given, and the replacements of locals
Expressions ==
    {Reference(LocalFoo), Reference(LocalBar), Reference(SelfId), Reference(Param1),
     Reference(NameFoo), FunctionLiteral(DeclaredFunction), LitNumber,
     Member(Reference(LocalFoo), S("x")), Member(Reference(SelfId), S("x"))}
ReferenceMaps ==
    {EmptyMap, (LocalFoo :> Null), (LocalFoo :> Reference(LocalBar)),
     (LocalFoo :> FunctionLiteral(DeclaredFunction)) @@ (LocalBar :> LitNumber)}

FinalizeExpression ==
    /\ phase = "finalized"
    /\ output = NoOutput
    /\ \E expression \in Expressions, refs \in ReferenceMaps :
          output' = [kind |-> "expression",
                     expression |-> finalizeExpression(expression, refs)]
    /\ UNCHANGED <<ctxVars, resolverVars, pruneVars, readVars, node, threw, scopeItems,
                   phase, analyzed>>

\* the declarations of the module that is finalized
FinalizeBodies ==
    {<<>>,
     <<LocalStatement(<<Identifier(NameSelf)>>,
                      <<TableConstructorExpression(ClosureTable, <<>>)>>),
       FunctionDeclaration(MemberExpression(Identifier(NameSelf), ".", S("go")),
                           <<>>, <<>>)>>,
     <<LocalStatement(<<Identifier(NamePubl)>>, <<NewCall(S("Base"))>>),
       FunctionDeclaration(MemberExpression(Identifier(NamePubl), ":", S("go")),
                           <<>>, <<>>)>>}

FinalizeDeclarations ==
    {[declaration |-> FunctionDeclaration(NoNode, <<S("a")>>, body),
      identExpr |-> identExpr, scope |-> FunctionScope] :
        body \in FinalizeBodies,
        identExpr \in {LuaMember(Reference(NameFoo), S("new"), "."),
                       LuaMember(Reference(LocalFoo), S("new"), "."),
                       LuaMember(Reference(NameFoo), S("new"), ":"),
                       LuaMember(Reference(LocalFoo), S("create"), ":"),
                       Reference(NameBar)}}

InitFinalize == InitScopeWith(FinalizeDeclarations)

NextFinalize ==
    \/ SetFunctionInfo
    \/ SetFunctionInfoMethod
    \/ SetFunctionInfoParameters
    \/ AddAssignment
    \/ ResolveItems
    \/ Finalize
    \/ FinalizeTypes
    \/ FinalizeExpression

SpecFinalize == InitFinalize /\ [][NextFinalize]_vars

-----------------------------------------------------------------------------
(* AnalysisContext.addAssignment with an index or a member on the left,    *)
(* addField and setMetatable                                               *)

\* ---- typeResolver.resolve and resolveToLiteral in a context without cycles,
\* calls or usage: literals, references and chains of members and indexes
RECURSIVE ResolveChain(_)
RECURSIVE ResolveAll(_, _)
RECURSIVE resolveFieldTypes(_, _, _)
RECURSIVE LiteralOf(_)

\* the loop over the definitions of a reference or of a field
ResolveAll(acc, defs) ==
    IF defs = <<>> THEN acc
    ELSE ResolveAll(AddAll(acc, ResolveChain(Head(defs).expression)), Tail(defs))

\* resolveFieldTypes(types, field, isIndex), part_002, lines 512-540
resolveFieldTypes(acc, types, literalKey) ==
    IF types = <<>> THEN acc
    ELSE resolveFieldTypes(
             IF StartsWith(Head(types), TablePrefix)
             THEN ResolveAll(acc, MapGet(getTableInfo(Head(types)).definitions,
                                          literalKey, <<>>))
             ELSE acc,
             Tail(types), literalKey)

\* resolveToLiteral, part_002, lines 260-291: a literal that is no table and no
\* function, or the one definition of a reference
LiteralOf(expression) ==
    IF expression.type = "literal"
    THEN (IF expression.luaType # TTable /\ expression.luaType # TFunction
          THEN expression ELSE NoLiteral)
    ELSE IF expression.type = "reference"
    THEN (IF Len(getDefinitions(expression.id)) = 1
          THEN LiteralOf(getDefinitions(expression.id)[1].expression) ELSE NoLiteral)
    ELSE NoLiteral

\* resolve, part_002, lines 60-208
ResolveChain(expression) ==
    IF expression.type = "literal" THEN LiteralTypes(expression)
    ELSE IF expression.type = "reference"
    THEN BoolCollapse(
             IF ReferenceSkipsDefinitions(expression.id) THEN ReferenceSeed(expression.id)
             ELSE ResolveAll(ReferenceSeed(expression.id), getDefinitions(expression.id)))
    ELSE IF expression.type = "member"
    THEN BoolCollapse(resolveFieldTypes(<<>>, ResolveChain(expression.base),
                                        getLiteralKey(expression.member, Undefined)))
    ELSE IF expression.type = "index"
    THEN LET lit == LiteralOf(expression.index)
         IN IF lit = NoLiteral THEN <<>>
            ELSE BoolCollapse(resolveFieldTypes(<<>>, ResolveChain(expression.base),
                                                getLiteralKey(lit.literal, lit.luaType)))
    ELSE <<>>

\* the table infos getTableInfo creates while an expression is resolved
RECURSIVE ResolveTables(_, _)
ResolveTables(tables, expression) ==
    IF expression.type = "member"
    THEN EnsureTables(ResolveTables(tables, expression.base),
                      TableTypes(ResolveChain(expression.base)))
    ELSE IF expression.type = "index"
    THEN (IF LiteralOf(expression.index) = NoLiteral
          THEN ResolveTables(tables, expression.base)
          ELSE EnsureTables(ResolveTables(tables, expression.base),
                            TableTypes(ResolveChain(expression.base))))
    ELSE tables

\* ---- addField
\* Op applied to v, with v computed once, as a `const` of the code is
Once(v, Op(_)) == CHOOSE r \in {Op(x) : x \in {v}} : TRUE

FieldDef(expression, instance) ==
    [expression |-> expression, index |-> 0, instance |-> instance]
SeenClass(id) == Partial("seenClassId", [tableId |-> id])

\* addSeenClasses(scope, expression), lines 1040-1073
RECURSIVE addSeenClasses(_, _, _)
addSeenClasses(tables, items, expression) ==
    IF expression.type \in {"literal", "operation", "require"} THEN items
    ELSE IF expression.type \in {"index", "member"}
    THEN addSeenClasses(tables, items, expression.base)
    ELSE LET types == ResolveChain(expression)
         IN IF Len(types) # 1 THEN items
            ELSE IF ~StartsWith(types[1], TablePrefix) THEN items
            ELSE IF MapGet(tables, types[1], NewTableInfo(types[1])).className # Undefined
            THEN Append(items, SeenClass(types[1]))
            ELSE items

\* the text of a class name after its last '.', `slice(endIdx ? endIdx + 1 : 0)`
AfterLastDot(name) ==
    LET dots == {i \in 1..Len(name) : name[i] = "."}
        endIdx == CHOOSE i \in dots : \A j \in dots : j <= i
    IN IF dots = {} THEN name
       ELSE IF endIdx = 1 THEN name
       ELSE SubSeq(name, endIdx + 1, Len(name))

Added(tables, items) == [tables |-> tables, items |-> items]

\* lines 895-930: the seen class recorded for the field, and the container id
\* given to a table assigned to a field
MarkContainer(tables, id, tableId) ==
    LET info == tables[id]
        isTable == StartsWith(tableId, TablePrefix)
    IN IF info.className # Undefined
       THEN (IF isTable /\ tables[tableId].containerId = Undefined
             THEN [tables EXCEPT ![tableId].containerId = id] ELSE tables)
       ELSE IF isTable /\ tables[tableId].containerId # Undefined THEN tables
       ELSE IF info.containerId # Undefined /\ isTable
       THEN [tables EXCEPT ![tableId].containerId = info.containerId]
       ELSE tables
MarkSeen(tables, items, id, tableId) ==
    LET info == tables[id]
        isTable == StartsWith(tableId, TablePrefix)
    IN IF info.className # Undefined THEN Append(items, SeenClass(id))
       ELSE IF isTable /\ tables[tableId].containerId # Undefined
       THEN Append(items, SeenClass(tables[tableId].containerId))
       ELSE IF info.containerId # Undefined THEN Append(items, SeenClass(info.containerId))
       ELSE items

\* a definition put at the head of the field's list
unshiftField(tables, id, field, def) ==
    [tables EXCEPT ![id].definitions =
        MapSet(@, field, <<def>> \o MapGet(@, field, <<>>))]

\* lines 935-948: the definition is pushed onto the end of the field's list
PushField(tables, id, field, def) ==
    [tables EXCEPT ![id].definitions =
        MapSet(@, field, Append(MapGet(@, field, <<>>), def))]

\* lines 950-991: a function assigned to a member of a table that a class
\* contains makes the table a nested class, and the container's field is
\* overwritten with one definition that names the class
NestClass(tables, items, id, rhs, lhs) ==
    LET info == tables[id]
        Nested(implied) ==
            LET className == implied.tables[id].className
                targetName == getLiteralKey(AfterLastDot(className), Undefined)
                containerInfo == MapGet(implied.tables, info.containerId,
                                        NewTableInfo(info.containerId))
            IN IF className = Undefined THEN implied
               ELSE IF targetName \notin DOMAIN containerInfo.definitions
               THEN Added(EnsureTable(implied.tables, info.containerId), implied.items)
               ELSE Added([implied.tables EXCEPT
                              ![info.containerId].definitions[targetName] =
                                  <<Def(TableLiteral(id))>>],
                          implied.items)
    IN IF info.className # Undefined \/ info.containerId = Undefined
       THEN Added(tables, items)
       ELSE IF rhs.type # "literal" \/ rhs.functionId = Undefined
       THEN Added(tables, items)
       ELSE Once(addImpliedClass(tables, items, lhs.base, id), Nested)

\* addField(scope, id, field, rhs, lhs, index, instance), lines 871-992, for a
\* right-hand side that is no operation and a table that is no closure class
addField(tables, items, id, field, rhs, lhs, instance) ==
    LET types == ResolveChain(rhs)
        tableId == IF Len(types) = 1 THEN types[1] ELSE Undefined
        ensured == IF StartsWith(tableId, TablePrefix)
                   THEN EnsureTable(EnsureTable(tables, id), tableId)
                   ELSE EnsureTable(tables, id)
        Marked(marked) ==
            Once(Added(PushField(marked, id, field, FieldDef(rhs, instance)),
                       addSeenClasses(marked, MarkSeen(ensured, items, id, tableId),
                                      lhs.base)),
                 LAMBDA pushed : NestClass(pushed.tables, pushed.items, id, rhs, lhs))
    IN IF ~StartsWith(id, TablePrefix) THEN Added(tables, items)
       ELSE Once(MarkContainer(ensured, id, tableId), Marked)

\* ---- addAssignment
\* `indexBase.length !== 1`, `memberBase.length !== 1` (lines 188 and 218)
moreThanNone(types) == Len(types) >= 1
ExactlyOne(types) == Len(types) = 1

\* `!resolved || !resolved.literal` (line 193)
Folded(literal) == literal # NoLiteral /\ literal.literal # Undefined

\* the filter of lines 208-215
NotInstance(types) ==
    SelectSeq(types, LAMBDA x : ~StartsWith(x, SelfPrefix) /\ ~StartsWith(x, InstancePrefix))

\* what addAssignment leaves behind; target and key name the list the
\* definition was pushed onto, base and literal what the left-hand side
\* resolved to
Assigned(tables, items, defs, base, literal, target, key) ==
    [tables |-> tables, items |-> items, definitions |-> defs, base |-> base,
     literal |-> literal, target |-> target, key |-> key]

\* lines 169-181
addAssignmentReference(items, item) ==
    LET tried == tryAddPartialItem(items, item, item.lhs, item.rhs)
        rhs == IF tried.tableId # Undefined THEN TableLiteral(tried.tableId) ELSE item.rhs
    IN Assigned(tried.tables, tried.items,
                addDefinition(tried.definitions, item.lhs.id, rhs),
                <<>>, NoLiteral, item.lhs.id, Undefined)

\* lines 183-203
addAssignmentIndex(items, item) ==
    LET lhs == item.lhs
        indexBase == ResolveChain(lhs.base)
        resolved == LiteralOf(lhs.index)
        key == getLiteralKey(resolved.literal, resolved.luaType)
        tables == ResolveTables(idToTableInfo, lhs.base)
        isTable == StartsWith(indexBase[1], TablePrefix)
        WithField(added) ==
            Assigned(added.tables, added.items, definitions, indexBase, resolved,
                     IF isTable THEN indexBase[1] ELSE Undefined,
                     IF isTable THEN key ELSE Undefined)
    IN IF ~ExactlyOne(indexBase)
       THEN Assigned(tables, items, definitions, indexBase, NoLiteral, Undefined, Undefined)
       ELSE IF ~Folded(resolved)
       THEN Assigned(tables, items, definitions, indexBase, resolved, Undefined, Undefined)
       ELSE Once(tables,
                 LAMBDA t : Once(addField(t, items, indexBase[1], key, item.rhs, lhs, FALSE),
                                 WithField))

\* lines 205-243
addAssignmentMember(items, item) ==
    LET lhs == item.lhs
        rhs == item.rhs
        resolvedBase == ResolveChain(lhs.base)
        memberBase == NotInstance(resolvedBase)
        isInstance == Len(memberBase) # Len(resolvedBase)
        tables == ResolveTables(idToTableInfo, lhs.base)
        named == IF rhs.type = "literal" /\ rhs.tableId # Undefined
                 THEN [EnsureTable(tables, rhs.tableId) EXCEPT
                          ![rhs.tableId].originalName =
                              IF @ = Undefined THEN getFieldClassName(lhs) ELSE @]
                 ELSE tables
        memberKey == getLiteralKey(lhs.member, Undefined)
        isTable == StartsWith(memberBase[1], TablePrefix)
        WithField(added) ==
            Assigned(added.tables, added.items, definitions, memberBase, NoLiteral,
                     IF isTable THEN memberBase[1] ELSE Undefined,
                     IF isTable THEN memberKey ELSE Undefined)
    IN IF ~ExactlyOne(memberBase)
       THEN Assigned(tables, items, definitions, memberBase, NoLiteral, Undefined, Undefined)
       ELSE IF isInstance /\ lhs.member = S("__index")
       THEN Assigned(tables, items, definitions, memberBase, NoLiteral, Undefined, Undefined)
       ELSE Once(named,
                 LAMBDA t : Once(addField(t, items, memberBase[1], memberKey, rhs, lhs,
                                          isInstance),
                                 WithField))

\* addAssignment(scope, item), lines 142-248
addAssignment(item) ==
    LET items == Append(scopeItems, item)
    IN IF item.lhs.type = "reference" THEN addAssignmentReference(items, item)
       ELSE IF item.lhs.type = "index" THEN addAssignmentIndex(items, item)
       ELSE IF item.lhs.type = "member" THEN addAssignmentMember(items, item)
       ELSE Assigned(idToTableInfo, items, definitions, <<>>, NoLiteral, Undefined,
                     Undefined)

\* ---- setMetatable(scope, lhs, meta), lines 647-741
\* the table constructor { key = value } handed over as the metatable
MetaLiteral(fields) ==
    [type |-> "literal", luaType |-> TTable, literal |-> Undefined,
     tableId |-> Undefined, functionId |-> Undefined, fields |-> fields]
MetaField(name, value) == [key |-> [type |-> "string", name |-> name], value |-> value]

\* LuaScope.addInstance is not among the sources: the id it gives a local
\* starts with @instance and ends in [name] (localIdToName reads names there)
InstanceId(name) == InstancePrefix \o <<"(1)", "[">> \o name \o <<"]">>

\* lines 706-725: every definition of every field of the table, in the order
\* of the field's list, is pushed onto the end of the class's list
RECURSIVE CopyFields(_, _, _, _)
CopyFields(tables, metaId, lhsId, keys) ==
    IF keys = {} THEN tables
    ELSE LET key == CHOOSE k \in keys : TRUE
             list == tables[lhsId].definitions[key]
             copies == [i \in 1..Len(list) |-> FieldDef(list[i].expression, TRUE)]
         IN CopyFields([tables EXCEPT ![metaId].definitions =
                           MapSet(@, key, MapGet(@, key, <<>>) \o copies)],
                       metaId, lhsId, keys \ {key})

RECURSIVE CopyTables(_, _, _)
CopyTables(tables, metaId, lhsTypes) ==
    IF lhsTypes = <<>> THEN tables
    ELSE LET ensured == EnsureTable(tables, Head(lhsTypes))
             lhsInfo == ensured[Head(lhsTypes)]
         IN CopyTables(IF lhsInfo.className # Undefined THEN ensured
                       ELSE CopyFields(ensured, metaId, Head(lhsTypes),
                                       DOMAIN lhsInfo.definitions),
                       metaId, Tail(lhsTypes))

setMetatable(lhs, meta) ==
    LET unchanged == [tables |-> idToTableInfo, definitions |-> definitions,
                      instance |-> Undefined]
        name == localIdToName(lhs.id)
        unwrapped == IF meta.type = "literal" THEN meta.fields[1].value ELSE meta
        metaTypes == SelectSeq(ResolveChain(unwrapped),
                               LAMBDA x : ~StartsWith(x, SelfPrefix))
        resolvedMeta == metaTypes[1]
        tables == EnsureTable(ResolveTables(idToTableInfo, unwrapped), resolvedMeta)
        lhsTypes == SelectSeq(ResolveChain(lhs), LAMBDA x : x # InstanceMark)
    IN IF lhs.type # "reference" THEN unchanged
       ELSE IF name = Undefined THEN unchanged
       ELSE IF meta.type = "literal"
               /\ (Len(meta.fields) # 1 \/ meta.fields[1].key.type # "string"
                   \/ meta.fields[1].key.name # S("__index"))
       THEN unchanged
       ELSE IF Len(metaTypes) # 1 \/ ~StartsWith(resolvedMeta, TablePrefix)
       THEN [unchanged EXCEPT !.tables = ResolveTables(idToTableInfo, unwrapped)]
       ELSE IF tables[resolvedMeta].className = Undefined
       THEN [unchanged EXCEPT !.tables = tables]
       ELSE IF \E i \in 1..Len(lhsTypes) : ~StartsWith(lhsTypes[i], TablePrefix)
       THEN [unchanged EXCEPT !.tables = tables]
       ELSE [tables |-> CopyTables(tables, resolvedMeta, lhsTypes),
             definitions |-> MapSet(definitions, InstanceId(name),
                                    <<Def(TableLiteral(resolvedMeta))>>),
             instance |-> InstanceId(name)]

\* ---- the statements of a module, handed to the context one after the other
MaxStatements == 3
NameBase == S("Base")
BaseTable == TableId("(8)")
InstanceBar == InstanceId(S("Bar"))

\* the k-th statement assigns a literal no other statement assigns
Numerals == <<"11", "12", "13", "14", "15", "16">>
Ordinals == <<"(11)", "(12)", "(13)", "(14)", "(15)", "(16)">>
TaggedValues(k) ==
    {Literal(TNumber, <<Numerals[k]>>), TableLiteral(TableId(Ordinals[k])),
     FunctionLiteral(FunctionId(Ordinals[k]))}

FieldTargets ==
    {Member(Reference(NameFoo), S("a")),
     Member(Reference(NameFoo), S("inner")),
     Member(Member(Reference(NameFoo), S("inner")), S("f")),
     Member(Reference(LocalBar), S("a")),
     Member(Reference(InstanceBar), S("a")),
     Member(Reference(SelfId), S("a")),
     Member(Reference(SelfId), S("__index")),
     Member(Reference(IdX), S("a")),
     Member(Reference(IdY), S("a")),
     Index(Reference(NameFoo), LitKeyA),
     Index(Reference(NameFoo), Reference(IdK)),
     Index(Reference(NameFoo), Reference(IdX)),
     Index(Reference(IdX), LitKeyA)}

\* Base or {}
BaseOr(k) == Operation("or", <<Reference(NameBase), TableLiteral(TableId(Ordinals[k]))>>)
StatementItems(k) ==
    {Assignment(lhs, rhs) :
        lhs \in {Reference(NameFoo), Reference(LocalBar)} \cup FieldTargets,
        rhs \in TaggedValues(k)}
    \cup {Assignment(Reference(NameFoo), Reference(NameBase)),
          Assignment(Reference(LocalBar), Reference(NameBase)),
          Assignment(Reference(NameFoo), BaseOr(k)),
          Assignment(Reference(NameBase), BaseOr(k))}

Metatables == {Reference(NameBase), Reference(NameFoo),
               MetaLiteral(<<MetaField(S("__index"), Reference(NameBase))>>)}

\* what the metatable of a call resolves to: meta, or Y of { __index = Y }
MetaTypes(meta) ==
    IF meta.type = "literal" THEN ResolveChain(meta.fields[1].value) ELSE ResolveChain(meta)

\* the statements handed over so far, with what each one resolved to
Log == IF output.kind = "statements" THEN output.log ELSE <<>>
Logged(item, done) ==
    [item |-> item, base |-> done.base, literal |-> done.literal,
     target |-> done.target, key |-> done.key,
     classTable |-> IF item.lhs.type = "reference" /\ ~StartsWith(item.lhs.id, At)
                    THEN checkClassTable(item.rhs) ELSE Undefined]

\* an assignment statement: addAssignment(scope, item)
AssignStatement ==
    /\ phase = "read"
    /\ Len(Log) < MaxStatements
    /\ \E item \in StatementItems(Len(Log) + 1) :
          \E done \in {addAssignment(item)} :
             /\ scopeItems' = done.items
             /\ idToTableInfo' = done.tables
             /\ definitions' = done.definitions
             /\ output' = [kind |-> "statements", log |-> Append(Log, Logged(item, done)),
                           before |-> idToTableInfo]
    /\ UNCHANGED <<idToFunctionInfo, parameterToFunctionId, usageTypes, modules, aliasMap,
                   resolverVars, pruneVars, readVars, node, threw, phase, analyzed>>

\* a call setmetatable(Bar, meta): setMetatable(scope, lhs, meta)
SetMetatable ==
    /\ phase = "read"
    /\ Len(Log) < MaxStatements
    /\ \E meta \in Metatables :
          LET lhs == Reference(LocalBar)
              item == [type |-> "setMetatable", lhs |-> lhs, rhs |-> meta]
          IN \E done \in {setMetatable(lhs, meta)} :
             /\ idToTableInfo' = done.tables
             /\ definitions' = done.definitions
             /\ output' = [kind |-> "statements",
                           log |-> Append(Log, [item |-> item, base |-> <<>>,
                                                literal |-> NoLiteral,
                                                target |-> Undefined, key |-> Undefined,
                                                classTable |-> Undefined,
                                                instance |-> done.instance,
                                                metaTypes |-> MetaTypes(meta),
                                                lhsTypes |-> ResolveChain(lhs)]),
                           before |-> idToTableInfo]
    /\ UNCHANGED <<idToFunctionInfo, parameterToFunctionId, usageTypes, modules, aliasMap,
                   resolverVars, pruneVars, readVars, node, threw, scopeItems, phase,
                   analyzed>>

\* Base is a class, self is the first parameter of one of its methods, k is a
\* string, x is a table or a number, y was never assigned
InitAssign ==
    /\ definitions = (NameBase :> <<Def(TableLiteral(BaseTable))>>)
                     @@ (IdK :> <<Def(LitKeyA)>>)
                     @@ (IdX :> <<Def(TableLiteral(BaseTable)), Def(LitNumber)>>)
    /\ idToTableInfo = (BaseTable :> [NewTableInfo(BaseTable) EXCEPT !.className = NameBase])
    /\ idToFunctionInfo =
          (Function1 :> Function(Function1, <<SelfId>>, << <<BaseTable>> >>, <<>>, FALSE))
    /\ parameterToFunctionId = (SelfId :> Function1)
    /\ usageTypes = EmptyMap
    /\ modules = EmptyMap
    /\ aliasMap = EmptyMap
    /\ node = NoNode
    /\ threw = Undefined
    /\ scopeItems = <<>>
    /\ phase = "read"
    /\ analyzed = Undefined
    /\ output = NoOutput
    /\ input = Fresh(LitNil)
    /\ IdleResolver
    /\ IdlePrune
    /\ IdleRead

NextAssign ==
    \/ AssignStatement
    \/ SetMetatable

SpecAssign == InitAssign /\ [][NextAssign]_vars

\* ---- assignments to the fields of a class and of the tables it contains
MaxNested == 4
BaseInner == Member(Reference(NameBase), S("inner"))
BaseInnerSub == Member(BaseInner, S("sub"))
NestedTargets ==
    {BaseInner, BaseInnerSub, Member(Reference(NameBase), S("sub")),
     Member(BaseInner, S("f")), Member(BaseInnerSub, S("f"))}
NestedItems(k) ==
    {Assignment(lhs, rhs) : lhs \in NestedTargets, rhs \in TaggedValues(k)}

\* an assignment statement of these: addAssignment(scope, item)
AssignNested ==
    /\ phase = "read"
    /\ Len(Log) < MaxNested
    /\ \E item \in NestedItems(Len(Log) + 1) :
          \E done \in {addAssignment(item)} :
             /\ scopeItems' = done.items
             /\ idToTableInfo' = done.tables
             /\ definitions' = done.definitions
             /\ output' = [kind |-> "statements", log |-> Append(Log, Logged(item, done)),
                           before |-> idToTableInfo]
    /\ UNCHANGED <<idToFunctionInfo, parameterToFunctionId, usageTypes, modules, aliasMap,
                   resolverVars, pruneVars, readVars, node, threw, phase, analyzed>>

NextNested == AssignNested

SpecNested == InitAssign /\ [][NextNested]_vars

-----------------------------------------------------------------------------
(* AnalysisContext.addUsage for calls                                      *)

\* narrowTypes (part_002, lines 473-503) under the mask addUsage has just set
narrowWith(mask, types) ==
    LET narrowed == SelectSeq(types, LAMBDA t : Permitted(mask, t))
    IN IF Len(types) <= 1 THEN types
       ELSE IF Cardinality(mask) = 0 \/ Cardinality(mask) = 5 THEN types
       ELSE IF Len(narrowed) = 0 THEN types
       ELSE narrowed

\* typeResolver.resolve({ expression: item.expression }), lines 1128-1130, for
\* a reference whose definitions are literals
ResolveCallee(expression, mask) ==
    BoolCollapse(narrowWith(mask, ResolveAll(ReferenceSeed(expression.id),
                                             getDefinitions(expression.id))))

\* lines 1137-1154: the types of the arguments are added slot by slot, then
\* every slot of parameterTypes past the arguments gets nil
addArguments(info, arguments) ==
    [i \in 1..(IF Len(info.parameterTypes) > Len(arguments)
               THEN Len(info.parameterTypes) ELSE Len(arguments)) |->
        LET old == IF i <= Len(info.parameterTypes) THEN info.parameterTypes[i] ELSE <<>>
        IN IF i <= Len(arguments) THEN AddAll(old, ResolveChain(arguments[i]))
           ELSE Add(old, TNil)]

\* ---- the calls of a module
MaxCalls == 3
IdH == S("h")
NoFlags ==
    [supportsConcatenation |-> FALSE, supportsIndexing |-> FALSE, supportsLength |-> FALSE,
     supportsIndexAssignment |-> FALSE, supportsMath |-> FALSE, inNumericFor |-> FALSE,
     isCall |-> TRUE]
ArgumentLists ==
    {<<>>, <<LitNumber>>, <<LitString>>, <<LitNumber, LitString>>, <<LitString, LitNil>>,
     <<LitTrue, LitFalse, LitNumber>>}
Callees == {Reference(IdF), Reference(IdG), Reference(IdH), Reference(IdX)}
CallItems ==
    {[flags |-> flags, expression |-> callee, arguments |-> arguments] :
        flags \in {NoFlags, [NoFlags EXCEPT !.supportsIndexing = TRUE]},
        callee \in Callees, arguments \in ArgumentLists}

Calls == IF output.kind = "usage" THEN output.calls ELSE 0

\* what each kind of usage permits, as the comments of addUsage put it
PermittedBy(flags) ==
    (IF flags.supportsConcatenation THEN {TString, TNumber} ELSE UsageUniverse)
    \cap (IF flags.supportsIndexing \/ flags.supportsLength
          THEN {TTable, TString} ELSE UsageUniverse)
    \cap (IF flags.supportsIndexAssignment THEN {TTable} ELSE UsageUniverse)
    \cap (IF flags.supportsMath \/ flags.inNumericFor THEN {TNumber} ELSE UsageUniverse)
    \cap (IF flags.isCall THEN {TFunction} ELSE UsageUniverse)
\* for each expression, what all the usages recorded so far permit
PermittedSoFar == IF output.kind = "usage" THEN output.permitted ELSE EmptyMap
Recorded(item) ==
    MapSet(PermittedSoFar, item.expression,
           MapGet(PermittedSoFar, item.expression, UsageUniverse) \cap PermittedBy(item.flags))

\* addUsage(item) for an item that has arguments, lines 1075-1155
AddUsage ==
    /\ phase = "read"
    /\ Calls < MaxCalls
    /\ \E item \in CallItems :
          LET mask == addUsage(MapGet(usageTypes, item.expression, UsageUniverse),
                               item.flags)
              types == ResolveCallee(item.expression, mask)
              id == types[1]
              isFunction == Len(types) = 1 /\ StartsWith(id, FunctionPrefix)
              funcs == EnsureFunction(idToFunctionInfo, id)
          IN /\ usageTypes' = MapSet(usageTypes, item.expression, mask)
             /\ idToFunctionInfo' =
                   IF isFunction
                   THEN [funcs EXCEPT ![id].parameterTypes =
                                          addArguments(funcs[id], item.arguments)]
                   ELSE idToFunctionInfo
             /\ output' = [kind |-> "usage", item |-> item, calls |-> Calls + 1,
                           callee |-> IF isFunction THEN id ELSE Undefined,
                           before |-> idToFunctionInfo, permitted |-> Recorded(item)]
    /\ UNCHANGED <<definitions, idToTableInfo, parameterToFunctionId, modules, aliasMap,
                   resolverVars, pruneVars, readVars, node, threw, scopeItems, phase,
                   analyzed>>

\* the usages of g and x that are no calls: every combination of flags
FlagItems ==
    {[flags |-> flags, expression |-> expression] :
        flags \in {item \in UsageItems : ~item.isCall},
        expression \in {Reference(IdG), Reference(IdX)}}

\* addUsage(item) for an item without arguments, lines 1075-1122: it returns
\* at `item.arguments === undefined`
AddUsageFlags ==
    /\ phase = "read"
    /\ Calls < MaxCalls
    /\ \E item \in FlagItems :
          /\ usageTypes' = MapSet(usageTypes, item.expression,
                                  addUsage(MapGet(usageTypes, item.expression, UsageUniverse),
                                           item.flags))
          /\ output' = [kind |-> "usage", item |-> item, calls |-> Calls + 1,
                        callee |-> Undefined, before |-> idToFunctionInfo,
                        permitted |-> Recorded(item)]
    /\ UNCHANGED <<definitions, idToTableInfo, idToFunctionInfo, parameterToFunctionId,
                   modules, aliasMap, resolverVars, pruneVars, readVars, node, threw,
                   scopeItems, phase, analyzed>>

\* f is a function of three parameters that setFunctionInfo has just set up,
\* g is a number or that function, h is one of two functions, x is a number
InitUsage ==
    /\ definitions = (IdF :> <<Def(FunctionLiteral(Function1))>>)
                     @@ (IdG :> <<Def(LitNumber), Def(FunctionLiteral(Function1))>>)
                     @@ (IdH :> <<Def(FunctionLiteral(Function1)),
                                  Def(FunctionLiteral(Function2))>>)
                     @@ (IdX :> <<Def(LitNumber)>>)
    /\ idToTableInfo = EmptyMap
    /\ idToFunctionInfo =
          (Function1 :> Function(Function1, <<Param1, Param2, Param3>>, <<>>, <<>>, FALSE))
          @@ (Function2 :> Function(Function2, <<>>, <<>>, <<>>, FALSE))
    /\ parameterToFunctionId = (Param1 :> Function1) @@ (Param2 :> Function1)
                               @@ (Param3 :> Function1)
    /\ usageTypes = EmptyMap
    /\ modules = EmptyMap
    /\ aliasMap = EmptyMap
    /\ node = NoNode
    /\ threw = Undefined
    /\ scopeItems = <<>>
    /\ phase = "read"
    /\ analyzed = Undefined
    /\ output = NoOutput
    /\ input = Fresh(LitNil)
    /\ IdleResolver
    /\ IdlePrune
    /\ IdleRead

NextUsage ==
    \/ AddUsage
    \/ AddUsageFlags

SpecUsage == InitUsage /\ [][NextUsage]_vars

-----------------------------------------------------------------------------
(* AnalysisContext.resolveReturns                                          *)

\* remapBooleans(types), lines 1768-1777
remapBooleans(types) ==
    AddAll(<<>>, [i \in 1..Len(types) |->
                     IF types[i] = TTrue \/ types[i] = TFalse THEN TBoolean ELSE types[i]])

\* `list[i] ??= new Set()` for an array without holes, then the additions
RECURSIVE Grow(_, _)
Grow(list, n) == IF Len(list) >= n THEN list ELSE Grow(Append(list, <<>>), n)
AddAt(list, i, types) == [Grow(list, i) EXCEPT ![i] = AddAll(@, types)]

IsCall(expression) == expression.type = "operation" /\ expression.operator = "call"

\* resolveReturnTypes(op), part_002, lines 213-253, for a callee that is a
\* reference, over the function infos as resolveReturns has left them so far
resolveReturnTypes(funcs, op) ==
    LET func == op.arguments[1]
        known == KnownReturns(func)
        resolved == ResolveChain(func)
        funcInfo == MapGet(funcs, resolved[1], NewFunctionInfo(resolved[1]))
    IN IF Len(op.arguments) = 0 THEN NoReturns
       ELSE IF known.defined THEN known
       ELSE IF Len(resolved) # 1 THEN NoReturns
       ELSE IF ~StartsWith(resolved[1], FunctionPrefix) THEN NoReturns
       ELSE IF funcInfo.isConstructor
       THEN [defined |-> TRUE,
             list |-> << AddAll(<<InstanceMark>>,
                                IF Len(funcInfo.returnTypes) > 0
                                THEN funcInfo.returnTypes[1] ELSE <<>>) >>]
       ELSE [defined |-> TRUE, list |-> funcInfo.returnTypes]

\* typeResolver.resolve({ expression: ret }) for a literal, a reference or a call
ResolveReturned(funcs, ret) ==
    IF IsCall(ret) THEN CallTypes(resolveReturnTypes(funcs, ret), 1)
    ELSE ResolveChain(ret)

\* lines 529-535: the slots of a trailing call are added from slot i on
RECURSIVE AddCallReturns(_, _, _, _)
AddCallReturns(returnTypes, funcReturns, i, j) ==
    IF j > Len(funcReturns) THEN returnTypes
    ELSE AddCallReturns(AddAt(returnTypes, i + j - 1, remapBooleans(funcReturns[j])),
                        funcReturns, i, j + 1)

\* lines 512-548: the loop over item.returns; `full` is fullReturnCount
RECURSIVE ReturnsLoop(_, _, _, _, _)
ReturnsLoop(funcs, id, item, i, full) ==
    IF i > Len(item.returns) THEN [funcs |-> funcs, full |-> full]
    ELSE LET ret == item.returns[i]
             slotted == [funcs EXCEPT ![id].returnTypes = Grow(@, i),
                                      ![id].returnExpressions = Grow(@, i)]
             isTailCall == i = Len(item.returns) /\ IsCall(ret)
             funcReturns == resolveReturnTypes(slotted, ret)
             expressed == [slotted EXCEPT ![id].returnExpressions[i] = Add(@, ret)]
         IN IF item.type = "resolved"
            THEN ReturnsLoop([slotted EXCEPT ![id].returnTypes[i] = AddAll(@, ret.types)],
                             id, item, i + 1, full)
            ELSE IF isTailCall /\ funcReturns.defined
            THEN ReturnsLoop([expressed EXCEPT ![id].returnTypes =
                                 AddCallReturns(@, funcReturns.list, i, 1)],
                             id, item, i + 1, full + Len(funcReturns.list) - 1)
            ELSE ReturnsLoop([expressed EXCEPT ![id].returnTypes[i] =
                                 AddAll(@, remapBooleans(ResolveReturned(slotted, ret)))],
                             id, item, i + 1, full)

\* Math.min(funcInfo.minReturns ?? Number.MAX_VALUE, count)
lastWidth(minReturns, count) == count
MinReturns(minReturns, count) ==
    IF minReturns = NoMinimum THEN count
    ELSE IF minReturns < count THEN minReturns ELSE count

\* lines 570-573: the slots from min on are marked nullable
MarkNullable(returnTypes, min) ==
    [i \in 1..Len(returnTypes) |->
        IF i > min THEN Add(returnTypes[i], TNil) ELSE returnTypes[i]]

\* resolveReturns(item), lines 496-574
resolveReturns(item) ==
    LET funcs == EnsureFunction(idToFunctionInfo, item.id)
        funcInfo == funcs[item.id]
        looped == ReturnsLoop(funcs, item.id, item, 1, Len(item.returns))
        min == MinReturns(funcInfo.minReturns, looped.full)
    IN IF "returns" \notin DOMAIN item THEN idToFunctionInfo
       ELSE IF funcInfo.isConstructor
       THEN [funcs EXCEPT ![item.id].minReturns = MinReturns(@, Len(item.returns))]
       ELSE [looped.funcs EXCEPT ![item.id].minReturns = min,
                                 ![item.id].returnTypes = MarkNullable(@, min)]

\* ---- the return statements of two functions
MaxReturnItems == 3
Function4 == FunctionId("(4)")
Call(callee) == Operation("call", <<Reference(callee)>>)
ReturnLists ==
    {<<>>, <<LitNumber>>, <<LitNumber, LitTrue>>, <<LitNumber, LitString, LitNil>>,
     <<Call(IdG)>>, <<LitNumber, Call(IdG)>>, <<Call(IdG), LitNumber>>, <<Call(IdH)>>,
     <<Call(IdY)>>, <<Call(IdF)>>, <<LitNumber, Call(IdF)>>, <<Call(S("tonumber"))>>}
ResolvedLists ==
    {<< [types |-> <<TNumber>>] >>, << [types |-> <<TNumber>>], [types |-> <<TString>>] >>}
ReturnsItems ==
    {[type |-> "returns", id |-> id, returns |-> returns] :
        id \in {Function1, Function4}, returns \in ReturnLists}
    \cup {[type |-> "resolved", id |-> id, returns |-> returns] :
            id \in {Function1, Function4}, returns \in ResolvedLists}
    \cup {[type |-> "returns", id |-> Function1]}

\* the width of a return statement: its number of values, a trailing call
\* counting as the number of return slots its callee has when it is resolved
Width(item) ==
    LET n == Len(item.returns)
        grown == [EnsureFunction(idToFunctionInfo, item.id) EXCEPT
                     ![item.id].returnTypes = Grow(@, n)]
        funcReturns == resolveReturnTypes(grown, item.returns[n])
    IN IF item.type = "returns" /\ n > 0 /\ IsCall(item.returns[n]) /\ funcReturns.defined
       THEN n - 1 + Len(funcReturns.list)
       ELSE n

\* the widths of the return statements handed over so far, by function
Widths == IF output.kind = "returns" THEN output.widths
          ELSE (Function1 :> <<>>) @@ (Function4 :> <<>>)
Handed == IF output.kind = "returns" THEN output.handed ELSE 0

\* resolveReturns(item) for one return statement or one resolved scope
ResolveReturns ==
    /\ phase = "read"
    /\ Handed < MaxReturnItems
    /\ \E item \in ReturnsItems :
          /\ idToFunctionInfo' = resolveReturns(item)
          /\ output' = [kind |-> "returns", item |-> item, handed |-> Handed + 1,
                        widths |-> IF "returns" \in DOMAIN item
                                   THEN [Widths EXCEPT ![item.id] = Append(@, Width(item))]
                                   ELSE Widths]
    /\ UNCHANGED <<definitions, idToTableInfo, parameterToFunctionId, usageTypes, modules,
                   aliasMap, resolverVars, pruneVars, readVars, node, threw, scopeItems,
                   phase, analyzed>>

\* f is the function whose returns are read, g returns a number and a string,
\* h returns nothing, y is unknown, and function 4 is a constructor
InitReturns ==
    /\ definitions = (IdF :> <<Def(FunctionLiteral(Function1))>>)
                     @@ (IdG :> <<Def(FunctionLiteral(Function2))>>)
                     @@ (IdH :> <<Def(FunctionLiteral(Function3))>>)
    /\ idToTableInfo = EmptyMap
    /\ idToFunctionInfo =
          (Function1 :> NewFunctionInfo(Function1))
          @@ (Function2 :> Function(Function2, <<>>, <<>>,
                                    << <<TNumber>>, <<TString>> >>, FALSE))
          @@ (Function3 :> NewFunctionInfo(Function3))
          @@ (Function4 :> Function(Function4, <<>>, <<>>, << <<Table1>> >>, TRUE))
    /\ parameterToFunctionId = EmptyMap
    /\ usageTypes = EmptyMap
    /\ modules = EmptyMap
    /\ aliasMap = EmptyMap
    /\ node = NoNode
    /\ threw = Undefined
    /\ scopeItems = <<>>
    /\ phase = "read"
    /\ analyzed = Undefined
    /\ output = NoOutput
    /\ input = Fresh(LitNil)
    /\ IdleResolver
    /\ IdlePrune
    /\ IdleRead

NextReturns == ResolveReturns

SpecReturns == InitReturns /\ [][NextReturns]_vars

-----------------------------------------------------------------------------
(* BaseAnnotator.augmentModule and augmentClass, and Annotator.augmentClass *)

\* ---- the analyzed module and the Rosetta file as the annotators read them
StubField(name, types) == [name |-> name, types |-> types]
StubFunction(name, parameters) ==
    [name |-> name, parameters |-> parameters, returnTypes |-> <<>>]
StubClass(name, fields, staticFields, setterFields, functions, functionConstructors,
          methods) ==
    [name |-> name, fields |-> fields, staticFields |-> staticFields,
     setterFields |-> setterFields, functions |-> functions,
     functionConstructors |-> functionConstructors, methods |-> methods]
StubTable(name) == [name |-> name, staticFields |-> <<>>]
StubModule(classes, functions, tables) ==
    [id |-> CurrentModule, classes |-> classes, functions |-> functions,
     tables |-> tables]

\* the members of a Rosetta object are keyed by name: no two share one
RosettaField(name, type) == [name |-> name, type |-> type]
RosettaParameter(name) == [name |-> name, type |-> TNumber]
RosettaFunction(name, parameters) == [name |-> name, parameters |-> parameters]
RosettaClass(name, fields, staticFields, staticMethods, methods) ==
    [name |-> name, fields |-> fields, staticFields |-> staticFields,
     staticMethods |-> staticMethods, methods |-> methods]
RosettaFile(classes, functions, tables) ==
    [present |-> TRUE, classes |-> classes, functions |-> functions, tables |-> tables]
NoRosettaFile == [present |-> FALSE]

\* convertRosettaFields, convertRosettaFunctions, convertRosettaClass and
\* convertRosettaTable are not among the sources: a converted member keeps the
\* name of the Rosetta member, in the order of the Rosetta object
convertRosettaFields(fields) ==
    [i \in 1..Len(fields) |-> StubField(fields[i].name, <<fields[i].type>>)]
StubParameter(name) == [name |-> name, types |-> <<>>]
convertRosettaFunction(function) ==
    StubFunction(function.name,
                 [i \in 1..Len(function.parameters) |->
                     StubParameter(function.parameters[i].name)])
convertRosettaFunctions(functions) ==
    [i \in 1..Len(functions) |-> convertRosettaFunction(functions[i])]
convertRosettaClass(cls) ==
    StubClass(cls.name, convertRosettaFields(cls.fields),
              convertRosettaFields(cls.staticFields), <<>>,
              convertRosettaFunctions(cls.staticMethods), <<>>,
              convertRosettaFunctions(cls.methods))
convertRosettaTable(table) == StubTable(table.name)
ConvertAll(list, Convert(_)) == [i \in 1..Len(list) |-> Convert(list[i])]

NamesOf(list) == {list[i].name : i \in 1..Len(list)}
\* `.filter((x) => !set.has(x.name))`
Missing(list, names) == SelectSeq(list, LAMBDA x : x.name \notin names)
Named(list, name) == SelectSeq(list, LAMBDA x : x.name = name)

\* BaseAnnotator.augmentClass(cls, rosettaFile), BaseAnnotator.ts, lines 55-99
augmentClass(cls, rosettaFile) ==
    LET rosettaClass == Named(rosettaFile.classes, cls.name)[1]
        staticFieldSet == NamesOf(cls.staticFields) \cup NamesOf(cls.setterFields)
        funcSet == NamesOf(cls.functions) \cup NamesOf(cls.functionConstructors)
    IN IF Named(rosettaFile.classes, cls.name) = <<>> THEN cls
       ELSE [cls EXCEPT
               !.fields = @ \o Missing(convertRosettaFields(rosettaClass.fields),
                                       NamesOf(cls.fields)),
               !.staticFields = @ \o Missing(convertRosettaFields(rosettaClass.staticFields),
                                             staticFieldSet),
               !.functions = @ \o Missing(convertRosettaFunctions(rosettaClass.staticMethods),
                                          funcSet),
               !.methods = @ \o Missing(convertRosettaFunctions(rosettaClass.methods),
                                        NamesOf(cls.methods))]

\* Annotator.augmentClass(cls, rosettaFile), Annotator.ts, lines 171-209:
\* staticFieldSet is built from cls.fields, after the Rosetta fields were pushed
AnnotatorAugmentClass(cls, rosettaFile) ==
    LET rosettaClass == Named(rosettaFile.classes, cls.name)[1]
        fields == cls.fields \o Missing(convertRosettaFields(rosettaClass.fields),
                                        NamesOf(cls.fields))
        staticFieldSet == NamesOf(fields)
    IN IF Named(rosettaFile.classes, cls.name) = <<>> THEN cls
       ELSE [cls EXCEPT
               !.fields = fields,
               !.staticFields = @ \o Missing(convertRosettaFields(rosettaClass.staticFields),
                                             staticFieldSet),
               !.functions = @ \o Missing(convertRosettaFunctions(rosettaClass.staticMethods),
                                          NamesOf(cls.functions)),
               !.methods = @ \o Missing(convertRosettaFunctions(rosettaClass.methods),
                                        NamesOf(cls.methods))]

\* augmentModule(mod), BaseAnnotator.ts, lines 101-133, and Annotator.ts,
\* lines 211-243, which differ in the augmentClass they call
augmentModule(mod, annotator, rosettaFile) ==
    IF ~rosettaFile.present THEN mod
    ELSE [mod EXCEPT
            !.classes =
                [i \in 1..Len(mod.classes) |->
                    IF annotator = "BaseAnnotator"
                    THEN augmentClass(mod.classes[i], rosettaFile)
                    ELSE AnnotatorAugmentClass(mod.classes[i], rosettaFile)]
                \o ConvertAll(Missing(rosettaFile.classes, NamesOf(mod.classes)),
                              convertRosettaClass),
            !.functions = @ \o ConvertAll(Missing(rosettaFile.functions,
                                                  NamesOf(mod.functions)),
                                          convertRosettaFunction),
            !.tables = @ \o ConvertAll(Missing(rosettaFile.tables, NamesOf(mod.tables)),
                                       convertRosettaTable)]

\* ---- actions
\* getModules: `for (const mod of modules) this.augmentModule(mod)`
AugmentModule ==
    /\ stub.state = "loaded"
    /\ stub' = [stub EXCEPT !.state = "augmented",
                            !.module = augmentModule(@, rosetta.annotator, rosetta.file)]
    /\ UNCHANGED <<ctxVars, resolverVars, pruneVars, scopeVars, identifiers, readIndex,
                   fileSet, readLog, returned, rosetta>>

AnalyzedFoos ==
    {StubClass(NameFoo, fields, staticFields, setterFields,
               << StubFunction(S("f"), <<>>) >>, functionConstructors,
               << StubFunction(S("m"), <<>>) >>) :
        fields \in {<<>>, << StubField(S("x"), <<TNumber>>) >>},
        staticFields \in {<<>>, << StubField(S("x"), <<TNumber>>) >>},
        setterFields \in {<<>>, << StubField(S("y"), <<TNumber>>) >>},
        functionConstructors \in {<<>>, << StubFunction(S("new"), <<>>) >>}}
AnalyzedModules ==
    {StubModule(classes, << StubFunction(S("f"), <<>>) >>, tables) :
        classes \in {<<>>} \cup {<<cls>> : cls \in AnalyzedFoos},
        tables \in {<<>>, << StubTable(S("T")) >>}}

RosettaFoos ==
    {RosettaClass(NameFoo, fields, staticFields,
                  << RosettaFunction(S("f"), <<>>), RosettaFunction(S("new"), <<>>) >>,
                  << RosettaFunction(S("m"), <<>>), RosettaFunction(S("n"), <<>>) >>) :
        fields \in {<<>>, << RosettaField(S("x"), TString), RosettaField(S("z"), TString) >>},
        staticFields \in {<<>>, << RosettaField(S("x"), TString) >>,
                          << RosettaField(S("y"), TString) >>}}
RosettaBar == RosettaClass(NameBar, <<>>, <<>>, <<>>, <<>>)
RosettaFiles ==
    {NoRosettaFile}
    \cup {RosettaFile(classes,
                      << RosettaFunction(S("f"), <<>>), RosettaFunction(S("g"), <<>>) >>,
                      << StubTable(S("T")), StubTable(S("U")) >>) :
            classes \in {<<>>} \cup {<<cls>> : cls \in RosettaFoos}
                        \cup {<<cls, RosettaBar>> : cls \in RosettaFoos}}
Annotators == {"BaseAnnotator", "Annotator"}

InitAnnotateWith(mods, files) ==
    /\ rosetta \in [annotator : Annotators, file : files]
    /\ stub \in [state : {"loaded"}, module : mods, out : {<<>>}, diagnostics : {<<>>}]
    /\ identifiers = <<>>
    /\ readIndex = 0
    /\ fileSet = {}
    /\ readLog = <<>>
    /\ returned = NotReturned
    /\ IdleContext
    /\ input = Fresh(LitNil)
    /\ IdleResolver
    /\ IdlePrune
    /\ IdleScope

InitAugment == InitAnnotateWith(AnalyzedModules, RosettaFiles)

NextAugment == AugmentModule

SpecAugment == InitAugment /\ [][NextAugment]_vars

-----------------------------------------------------------------------------
(* Annotator.run, generateStub and writeFunction with a Rosetta function *)

RECURSIVE JoinNames(_)
\* `parameters.join(', ')`
JoinNames(parameters) ==
    IF parameters = <<>> THEN <<>>
    ELSE IF Len(parameters) = 1 THEN parameters[1]
    ELSE parameters[1] \o <<",", " ">> \o JoinNames(Tail(parameters))

\* `function ${name}(${params}) end`
getFunctionStringFromParamNames(name, parameters) ==
    <<"function", " ">> \o name \o <<"(">> \o JoinNames(parameters) \o <<")", " ", "end">>
getFunctionString(name, parameters) ==
    getFunctionStringFromParamNames(name,
        [i \in 1..Len(parameters) |-> parameters[i].name])

Warning(name) == [level |-> "warn", about |-> name]
Failure(id) == [level |-> "error", about |-> id]

\* checkRosettaFunction: the warnings it logs
checkRosettaFunction(rosettaFunc, name, func, isMethod) ==
    LET rosettaParams == rosettaFunc.parameters
        rosettaCount == Len(rosettaParams)
        luaCount == Len(func.parameters)
    IN IF luaCount = rosettaCount THEN <<>>
       ELSE IF /\ isMethod
               /\ rosettaCount = luaCount + 1
               /\ NameSelf \in NamesOf(rosettaParams)
       THEN <<>>
       ELSE << Warning(name) >>

\* validateRosettaFunction: whether it throws
validateRosettaFunction(rosettaFunc, func) ==
    Len(func.parameters) # Len(rosettaFunc.parameters)

\* writeRosettaFunction of part_001: the function line it pushes
writeRosettaFunction(rosettaFunc, name, isMethod) ==
    LET params == IF isMethod
                  THEN SelectSeq(rosettaFunc.parameters, LAMBDA x : x.name # NameSelf)
                  ELSE rosettaFunc.parameters
    IN getFunctionStringFromParamNames(name, [i \in 1..Len(params) |-> params[i].name])

\* writeRosettaFunction of Annotator.ts
AnnotatorWriteRosettaFunction(rosettaFunc, name) ==
    getFunctionStringFromParamNames(name,
        [i \in 1..Len(rosettaFunc.parameters) |-> rosettaFunc.parameters[i].name])

\* what generateStub has so far: the lines pushed, the diagnostics, and
\* whether an Error is propagating
Writing == [threw |-> FALSE, out |-> <<>>, diagnostics |-> <<>>]

\* writeFunction(func, name, isMethod, out, rosettaFunc); found is <<>> for an
\* undefined rosettaFunc
writeFunction(annotator, w, func, name, isMethod, found) ==
    IF w.threw THEN w
    ELSE IF found = <<>>
    THEN [w EXCEPT !.out = Append(@, getFunctionString(name, func.parameters))]
    ELSE IF annotator = "BaseAnnotator"
    THEN [w EXCEPT !.diagnostics = @ \o checkRosettaFunction(found[1], name, func, isMethod),
                   !.out = Append(@, writeRosettaFunction(found[1], name, isMethod))]
    ELSE IF validateRosettaFunction(found[1], func)
    THEN [w EXCEPT !.threw = TRUE]
    ELSE [w EXCEPT !.out = Append(@, AnnotatorWriteRosettaFunction(found[1], name))]

RECURSIVE writeClassFunctions(_, _, _, _, _, _)
\* writeClassFunctions(name, functions, indexer, out, rosettaClass), for
\* functions not named `new`; found is <<>> for an undefined rosettaClass
writeClassFunctions(annotator, w, name, functions, indexer, found) ==
    IF functions = <<>> THEN w
    ELSE LET func == Head(functions)
             isMethod == indexer = ":"
             rosettaFunc ==
                 IF found = <<>> THEN <<>>
                 ELSE IF isMethod THEN Named(found[1].methods, func.name)
                 ELSE Named(found[1].staticMethods, func.name)
         IN writeClassFunctions(annotator,
                writeFunction(annotator, w, func, name \o <<indexer>> \o func.name,
                              isMethod, rosettaFunc),
                name, Tail(functions), indexer, found)

RECURSIVE writeClasses(_, _, _, _)
\* writeClasses: the functions, then the methods of each class
writeClasses(annotator, w, classes, rosettaFile) ==
    IF classes = <<>> THEN w
    ELSE LET cls == Head(classes)
             rosettaClass == IF rosettaFile.present
                             THEN Named(rosettaFile.classes, cls.name) ELSE <<>>
             functions == writeClassFunctions(annotator, w, cls.name, cls.functions,
                                              ".", rosettaClass)
             methods == writeClassFunctions(annotator, functions, cls.name, cls.methods,
                                            ":", rosettaClass)
         IN writeClasses(annotator, methods, Tail(classes), rosettaFile)

RECURSIVE writeGlobalFunctions(_, _, _, _)
writeGlobalFunctions(annotator, w, functions, rosettaFile) ==
    IF functions = <<>> THEN w
    ELSE LET func == Head(functions)
             rosettaFunc == IF rosettaFile.present
                            THEN Named(rosettaFile.functions, func.name) ELSE <<>>
         IN writeGlobalFunctions(annotator,
                writeFunction(annotator, w, func, func.name, FALSE, rosettaFunc),
                Tail(functions), rosettaFile)

\* generateStub(mod): the classes, then the global functions
generateStub(annotator, mod, rosettaFile) ==
    writeGlobalFunctions(annotator,
        writeClasses(annotator, Writing, mod.classes, rosettaFile),
        mod.functions, rosettaFile)

\* `this.rosetta.files[mod.id]`: the Rosetta file is the one of CurrentModule
RosettaFileOf(mod) == IF mod.id = CurrentModule THEN rosetta.file ELSE NoRosettaFile

\* ---- actions
\* one turn of the loop of run(): generateStub in its try, then outputFile
GenerateStub ==
    /\ stub.state = "annotating"
    /\ stub.index <= Len(stub.modules)
    /\ LET mod == stub.modules[stub.index]
           w == generateStub(rosetta.annotator, mod, RosettaFileOf(mod))
       IN stub' = [stub EXCEPT
              !.index = @ + 1,
              !.diagnostics = @ \o w.diagnostics
                                \o (IF w.threw THEN << Failure(mod.id) >> ELSE <<>>),
              !.out = IF w.threw THEN @
                      ELSE Append(@, [id |-> mod.id, typestub |-> w.out])]
    /\ UNCHANGED <<ctxVars, resolverVars, pruneVars, scopeVars, identifiers, readIndex,
                   fileSet, readLog, returned, rosetta>>

NameA == S("a")
NameB == S("b")
AnalyzedParameterLists ==
    {<<>>, << StubParameter(NameA) >>, << StubParameter(NameA), StubParameter(NameB) >>}
RosettaParameterLists ==
    {<<>>, << RosettaParameter(NameA) >>,
     << RosettaParameter(S("p")), RosettaParameter(S("q")) >>,
     << RosettaParameter(NameSelf), RosettaParameter(NameA) >>}
\* the Rosetta functions named name: none, or one with each parameter list
RosettaNamed(name) ==
    {<<>>} \cup {<< RosettaFunction(name, parameters) >> : parameters \in RosettaParameterLists}

LaterModule == <<"shared", "/", "later">>
\* two modules: the first has a method Foo:m and a function f, the second a
\* function g that Rosetta does not describe
StubModules ==
    {<< StubModule(<< StubClass(NameFoo, <<>>, <<>>, <<>>, <<>>, <<>>,
                                << StubFunction(S("m"), method) >>) >>,
                   << StubFunction(S("f"), function) >>, <<>>),
        [id |-> LaterModule, classes |-> <<>>,
         functions |-> << StubFunction(S("g"), << StubParameter(NameA) >>) >>,
         tables |-> <<>>] >> :
        method \in AnalyzedParameterLists \ {<<>>}, function \in AnalyzedParameterLists}
StubRosettaFiles ==
    {NoRosettaFile}
    \cup {RosettaFile(<< RosettaClass(NameFoo, <<>>, <<>>, <<>>, methods) >>, functions, <<>>) :
            methods \in RosettaNamed(S("m")), functions \in RosettaNamed(S("f"))}

InitStub ==
    /\ rosetta \in [annotator : Annotators, file : StubRosettaFiles]
    /\ stub \in [state : {"annotating"}, modules : StubModules, index : {1},
                 out : {<<>>}, diagnostics : {<<>>}]
    /\ identifiers = <<>>
    /\ readIndex = 0
    /\ fileSet = {}
    /\ readLog = <<>>
    /\ returned = NotReturned
    /\ IdleContext
    /\ input = Fresh(LitNil)
    /\ IdleResolver
    /\ IdlePrune
    /\ IdleScope

NextStub == GenerateStub

SpecStub == InitStub /\ [][NextStub]_vars

-----------------------------------------------------------------------------
(* BaseAnnotator.transformModules and getModules, and RosettaUpdater.run    *)

NameType == S("Type")
\* `"${cls.deriveName}"`
Quoted(name) == <<"\"">> \o name \o <<"\"">>
\* the field transformModules injects, BaseAnnotator.ts, lines 201-209
TypeField(deriveName) ==
    [name |-> NameType, types |-> <<>>,
     expression |-> Literal(TString, Quoted(deriveName))]

\* an analyzed class with its deriveName (undefined for a class that is not
\* derived)
DerivedClass(name, deriveName, staticFields) ==
    [deriveName |-> deriveName]
    @@ StubClass(name, <<>>, staticFields, <<>>, <<>>, <<>>, <<>>)
\* `cls.deriveName`: undefined on a class converted from Rosetta data
deriveNameOf(cls) == IF "deriveName" \in DOMAIN cls THEN cls.deriveName ELSE Undefined

\* a file of this.rosetta.files, keyed by its id
UpdaterFile(id, filename, classes) ==
    [id |-> id, filename |-> filename] @@ RosettaFile(classes, <<>>, <<>>)
\* `this.rosetta.files[mod.id]`
FileFor(files, id) ==
    LET found == SelectSeq(files, LAMBDA file : file.id = id)
    IN IF found = <<>> THEN NoRosettaFile ELSE found[1]
IdsOf(list) == {list[i].id : i \in 1..Len(list)}

\* `rosettaClass?.staticFields?.Type`
definesType(rosettaFile, name) ==
    /\ rosettaFile.present
    /\ \E i \in 1..Len(rosettaFile.classes) :
          /\ rosettaFile.classes[i].name = name
          /\ NameType \in NamesOf(rosettaFile.classes[i].staticFields)

\* createModule(file), BaseAnnotator.ts, lines 135-147
createModule(file) ==
    augmentModule([id |-> file.id, classes |-> <<>>, functions |-> <<>>,
                   tables |-> <<>>], "BaseAnnotator", file)

\* the body of `for (const cls of mod.classes)`, BaseAnnotator.ts, lines 188-211
transformClass(cls, rosettaFile, excludeFields) ==
    IF cls.name \in excludeFields
    THEN [cls EXCEPT !.fields = <<>>, !.setterFields = <<>>, !.staticFields = <<>>]
    ELSE IF deriveNameOf(cls) # Undefined /\ ~definesType(rosettaFile, cls.name)
    THEN [cls EXCEPT !.staticFields = << TypeField(deriveNameOf(cls)) >> \o @]
    ELSE cls

\* transformModules(modules), BaseAnnotator.ts, lines 176-219
transformModules(mods, files, options) ==
    LET all == mods
               \o ConvertAll(SelectSeq(files, LAMBDA file : file.id \notin IdsOf(mods)),
                             createModule)
        injected ==
            [i \in 1..Len(all) |->
                [all[i] EXCEPT !.classes =
                    ConvertAll(SelectSeq(@, LAMBDA cls : cls.name \notin options.exclude),
                               LAMBDA cls : transformClass(cls, FileFor(files, all[i].id),
                                                           options.excludeFields))]]
    IN IF options.rosettaOnly \/ ~options.noInject
       THEN [i \in 1..Len(injected) |->
                augmentModule(injected[i], "BaseAnnotator", FileFor(files, injected[i].id))]
       ELSE injected

\* updateFields and updateFunctions, RosettaUpdater.ts, lines 251-306 and
\* 309-362: a Rosetta member the analysis does not know is deleted when
\* deleteUnknown is set (no member is tagged, and there is no skip pattern)
keepKnown(rosettaMembers, members, deleteUnknown) ==
    IF deleteUnknown THEN SelectSeq(rosettaMembers, LAMBDA x : x.name \in NamesOf(members))
    ELSE rosettaMembers

\* updateClasses(mod, file), RosettaUpdater.ts, lines 130-193
updateClasses(mod, file, deleteUnknown) ==
    LET known == keepKnown(file.classes, mod.classes, deleteUnknown)
        Updated(rosettaCls) ==
            IF Named(mod.classes, rosettaCls.name) = <<>> THEN rosettaCls
            ELSE LET cls == Named(mod.classes, rosettaCls.name)[1]
                 IN [rosettaCls EXCEPT
                       !.methods = keepKnown(@, cls.methods, deleteUnknown),
                       !.staticMethods =
                           keepKnown(@, cls.functions \o cls.functionConstructors,
                                     deleteUnknown),
                       !.fields = keepKnown(@, cls.fields, deleteUnknown),
                       !.staticFields =
                           keepKnown(@, cls.staticFields \o cls.setterFields,
                                     deleteUnknown)]
    IN [file EXCEPT !.classes = ConvertAll(known, Updated)]

\* the files update(modules) leaves in this.rosetta.files, RosettaUpdater.ts,
\* lines 67-126: the file of each module is updated, and a file of no module
\* is deleted when it has a filename and deleteUnknown is set
updatedFiles(mods, files, options) ==
    LET Updated(file) ==
            IF Named([i \in 1..Len(mods) |-> [name |-> mods[i].id]], file.id) = <<>>
            THEN file
            ELSE updateClasses(SelectSeq(mods, LAMBDA mod : mod.id = file.id)[1],
                               file, options.deleteUnknown)
    IN ConvertAll(SelectSeq(files, LAMBDA file :
                                \/ file.id \in IdsOf(mods)
                                \/ ~file.filename
                                \/ ~options.deleteUnknown),
                  Updated)

\* ---- actions
\* run(): `const modules = await this.getModules(true)`; getModules,
\* BaseAnnotator.ts, lines 149-166, takes the analyzer's modules (none with
\* rosettaOnly) and transforms them
GetModules ==
    /\ stub.state = "analyzed"
    /\ stub' = [state |-> "modules",
                modules |-> transformModules(IF rosetta.options.rosettaOnly THEN <<>>
                                             ELSE stub.modules,
                                             rosetta.files, rosetta.options)]
    /\ UNCHANGED <<ctxVars, resolverVars, pruneVars, scopeVars, identifiers, readIndex,
                   fileSet, readLog, returned, rosetta>>

\* run(): `await this.rosetta.load(this.rosettaDir)`, which is true when the
\* directory holds data; without data run() goes on to writeModules
LoadRosetta ==
    /\ stub.state = "modules"
    /\ rosetta' = [rosetta EXCEPT !.files = rosetta.directory]
    /\ stub' = [stub EXCEPT !.state = IF rosetta.directory = <<>> THEN "written"
                                      ELSE "loaded"]
    /\ UNCHANGED <<ctxVars, resolverVars, pruneVars, scopeVars, identifiers, readIndex,
                   fileSet, readLog, returned>>

\* run(): `this.update(modules)`, RosettaUpdater.ts, lines 67-128, which ends
\* with `await this.transformModules(modules)`, and writeModules
Update ==
    /\ stub.state = "loaded"
    /\ \E files \in {updatedFiles(stub.modules, rosetta.files, rosetta.options)} :
          /\ rosetta' = [rosetta EXCEPT !.files = files]
          /\ stub' = [state |-> "written",
                      modules |-> transformModules(stub.modules, files, rosetta.options)]
    /\ UNCHANGED <<ctxVars, resolverVars, pruneVars, scopeVars, identifiers, readIndex,
                   fileSet, readLog, returned>>

NameT == S("T")
NameDerived == S("A")
\* the analyzed module: A = Base:derive("T"), with or without a static field
\* of its own, or a class that is not derived
DerivedClasses ==
    {DerivedClass(NameDerived, deriveName, staticFields) :
        deriveName \in {Undefined, NameT},
        staticFields \in {<<>>, << StubField(S("x"), <<TNumber>>) >>}}
TransformModuleLists ==
    {<< StubModule(<<cls>>, <<>>, <<>>) >> : cls \in DerivedClasses}
\* the Rosetta directory: empty, or a file for the module (with class A, with
\* or without a static field Type) or for a module that was not analyzed
RosettaDirectories ==
    {<<>>}
    \cup {<< UpdaterFile(id, filename, << RosettaClass(NameDerived, <<>>, staticFields,
                                                        <<>>, <<>>) >>) >> :
            id \in {CurrentModule, LaterModule}, filename \in BOOLEAN,
            staticFields \in {<<>>, << RosettaField(NameType, TString) >>,
                              << RosettaField(S("y"), TString) >>}}
UpdaterOptions ==
    [exclude : {{}}, excludeFields : {{}, {NameDerived}}, noInject : BOOLEAN,
     rosettaOnly : BOOLEAN, deleteUnknown : BOOLEAN]

InitTransform ==
    /\ rosetta \in [annotator : {"RosettaUpdater"}, files : {<<>>},
                    directory : RosettaDirectories, options : UpdaterOptions]
    /\ stub \in [state : {"analyzed"}, modules : TransformModuleLists]
    /\ identifiers = <<>>
    /\ readIndex = 0
    /\ fileSet = {}
    /\ readLog = <<>>
    /\ returned = NotReturned
    /\ IdleContext
    /\ input = Fresh(LitNil)
    /\ IdleResolver
    /\ IdlePrune
    /\ IdleScope

NextTransform ==
    \/ GetModules
    \/ LoadRosetta
    \/ Update

SpecTransform == InitTransform /\ [][NextTransform]_vars

-----------------------------------------------------------------------------
(* AnalysisFinalizer.finalize and finalizeClass over the classes of a module *)

EarlierModule == <<"shared", "/", "earlier">>

\* a LuaExpressionInfo of a field, as addField pushes it
FieldDefinition(expression, definingModule, instance) ==
    [expression |-> expression, index |-> 0, instance |-> instance,
     definingModule |-> definingModule, functionLevel |-> FALSE]
\* one entry of the Map info.definitions, which keeps the order of insertion
FieldEntry(field, expressions) == [field |-> field, expressions |-> expressions]
\* a TableInfo with the module that defined it
ClassTable(id, className, definingModule, entries) ==
    [definingModule |-> definingModule, isLocalClass |-> FALSE]
    @@ [NewTableInfo(id) EXCEPT !.className = className, !.definitions = entries]

\* getLuaFieldKey(field) is not among the sources: the key of a string is the
\* string, any other key is written in brackets
getLuaFieldKey(field) ==
    IF readLuaStringLiteral(field) # Undefined THEN readLuaStringLiteral(field)
    ELSE <<"[">> \o field \o <<"]">>

\* the types the resolver gives the expressions of one field (literals)
RECURSIVE ResolveFields(_)
ResolveFields(expressions) ==
    IF expressions = <<>> THEN <<>>
    ELSE AddAll(ResolveFields(SubSeq(expressions, 1, Len(expressions) - 1)),
                LiteralTypes(expressions[Len(expressions)].expression))

\* finalizeStaticField(expressions, refs), lines 1549-1594: the types; the
\* rewritten expression is left out of the AnalyzedField
finalizeStaticField(name, expressions) ==
    [name |-> name,
     types |-> finalizeTypes(IF \E i \in 1..Len(expressions) : ~expressions[i].functionLevel
                             THEN ResolveFields(expressions)
                             ELSE Add(ResolveFields(expressions), TNil))]

IsTableLiteral(expressions) ==
    /\ Len(expressions) = 1
    /\ expressions[1].expression.type = "literal"
    /\ expressions[1].expression.tableId # Undefined

NoContribution ==
    [fields |-> <<>>, staticFields |-> <<>>, methods |-> <<>>, functions |-> <<>>,
     constructors |-> <<>>, functionConstructors |-> <<>>, checkSubfields |-> <<>>]

\* finalizeClass, lines 951-1071: the body of the loop over info.definitions,
\* for a class without literal fields that is no Atom UI class
classEntry(cls, isTable, entry) ==
    LET isClassDefiner == cls.definingModule = CurrentModule
        definingExprs ==
            SelectSeq(entry.expressions,
                      LAMBDA x : IF x.definingModule = Undefined THEN isClassDefiner
                                 ELSE x.definingModule = CurrentModule)
        found == SelectSeq(definingExprs,
                           LAMBDA x : (cls.generated \/ ~x.functionLevel) /\ ~x.instance)
        functionExpr == IF found = <<>> THEN NoExpression ELSE found[1].expression
        addedFunction == functionExpr.type = "literal" /\ functionExpr.functionId # Undefined
        identExpr == getFunctionInfo(functionExpr.functionId).identifierExpression
        indexer == IF identExpr.type = "member" THEN identExpr.indexer ELSE Undefined
        func == finalizeFunction(functionExpr.functionId,
                                 IF identExpr.type = "member" THEN identExpr.member
                                 ELSE getLuaFieldKey(entry.field))
        target == IF ~isTable /\ func.isConstructor
                  THEN (IF indexer = ":" THEN "constructors" ELSE "functionConstructors")
                  ELSE (IF indexer = ":" THEN "methods" ELSE "functions")
        withFunction == IF addedFunction THEN [NoContribution EXCEPT ![target] = <<func>>]
                        ELSE NoContribution
        name == getLuaFieldKey(entry.field)
        instanceExprs == SelectSeq(definingExprs, LAMBDA x : x.instance)
        staticExprs == SelectSeq(definingExprs, LAMBDA x : ~x.instance)
        types == finalizeTypes(ResolveFields(instanceExprs))
    IN IF definingExprs = <<>>
       THEN IF IsTableLiteral(entry.expressions)
            THEN [NoContribution EXCEPT
                    !.checkSubfields = << [id |-> entry.expressions[1].expression.tableId,
                                           baseName |-> name] >>]
            ELSE NoContribution
       ELSE IF instanceExprs # <<>>
       THEN IF addedFunction /\ AsSet(types) \subseteq {TFunction, TNil} THEN withFunction
            ELSE [withFunction EXCEPT !.fields = << [name |-> name, types |-> types] >>]
       ELSE IF staticExprs # <<>> /\ ~addedFunction
       THEN [withFunction EXCEPT !.staticFields = << finalizeStaticField(name, staticExprs) >>]
       ELSE withFunction

RECURSIVE Gathered(_, _)
\* the lists the loop has pushed onto, in the order of the entries
Gathered(contributions, list) ==
    IF contributions = <<>> THEN <<>>
    ELSE contributions[1][list] \o Gathered(Tail(contributions), list)

\* `name.startsWith('[') ? `${baseName}${name}` : `${baseName}.${name}``
SetterName(baseName, name) ==
    IF baseName = <<>> THEN name
    ELSE IF name[1] = "[" THEN baseName \o name
    ELSE baseName \o <<".">> \o name

\* finalizeClass, lines 1127-1179: what one entry of a table reached through
\* checkSubfields gives
setterEntry(tableInfo, baseName, entry) ==
    LET name == SetterName(baseName, getLuaFieldKey(entry.field))
        definingExprs ==
            SelectSeq(entry.expressions,
                      LAMBDA x : ~x.instance /\ x.definingModule = CurrentModule)
    IN IF definingExprs # <<>>
       THEN IF tableInfo.className # Undefined
            THEN [setterFields |-> <<>>, checkSubfields |-> <<>>,
                  extraClasses |-> << [name |-> tableInfo.className,
                                       tableId |-> tableInfo.id,
                                       definingModule |-> tableInfo.definingModule,
                                       generated |-> tableInfo.isLocalClass,
                                       base |-> Undefined] >>]
            ELSE [setterFields |-> << finalizeStaticField(name, definingExprs) >>,
                  checkSubfields |-> <<>>, extraClasses |-> <<>>]
       ELSE IF IsTableLiteral(entry.expressions)
       THEN [setterFields |-> <<>>, extraClasses |-> <<>>,
             checkSubfields |-> << [id |-> entry.expressions[1].expression.tableId,
                                    baseName |-> name] >>]
       ELSE [setterFields |-> <<>>, checkSubfields |-> <<>>, extraClasses |-> <<>>]

RECURSIVE floatingSetters(_, _, _, _)
\* finalizeClass, lines 1118-1184: `while (checkSubfields.length > 0)`, which
\* pops the last pair and skips a table it has seen
floatingSetters(checkSubfields, seenIds, setterFields, extraClasses) ==
    IF checkSubfields = <<>>
    THEN [setterFields |-> setterFields, extraClasses |-> extraClasses]
    ELSE LET top == checkSubfields[Len(checkSubfields)]
             rest == SubSeq(checkSubfields, 1, Len(checkSubfields) - 1)
             tableInfo == getTableInfo(top.id)
             Given(given) ==
                 Once([checkSubfields |-> rest \o Gathered(given, "checkSubfields"),
                       setterFields |-> setterFields \o Gathered(given, "setterFields"),
                       extraClasses |-> extraClasses \o Gathered(given, "extraClasses")],
                      LAMBDA next : floatingSetters(next.checkSubfields,
                                                    seenIds \cup {top.id},
                                                    next.setterFields, next.extraClasses))
         IN IF top.id \in seenIds
            THEN Once(rest, LAMBDA next : floatingSetters(next, seenIds, setterFields,
                                                          extraClasses))
            ELSE Once([i \in 1..Len(tableInfo.definitions) |->
                          setterEntry(tableInfo, top.baseName, tableInfo.definitions[i])],
                      Given)

\* isEmptyClass(cls), is-empty-class.ts, lines 7-18
isEmptyClass(cls) ==
    /\ Len(cls.fields) = 0
    /\ Len(cls.literalFields) = 0
    /\ Len(cls.staticFields) = 0
    /\ Len(cls.functions) = 0
    /\ Len(cls.methods) = 0
    /\ Len(cls.constructors) = 0
    /\ Len(cls.functionConstructors) = 0
    /\ Len(cls.overloads) = 0

\* finalizeClass(cls, refs), lines 840-1203, with the definitions of the table
finalizeClassDefinitions(cls) ==
    LET info == getTableInfo(cls.tableId)
        isTable == info.emitAsTable
        Finalized(given, floating) ==
            IF isTable
            THEN [isTable |-> TRUE, extraClasses |-> <<>>,
                  finalized |-> [name |-> cls.name,
                                 local |-> cls.generated \/ info.isLocalClass,
                                 staticFields |-> Gathered(given, "staticFields"),
                                 methods |-> Gathered(given, "methods"),
                                 functions |-> Gathered(given, "functions"),
                                 overloads |-> <<>>]]
            ELSE [isTable |-> FALSE, extraClasses |-> floating.extraClasses,
                  finalized |-> [name |-> cls.name, extends |-> cls.base,
                                 local |-> cls.generated \/ info.isLocalClass,
                                 fields |-> Gathered(given, "fields"),
                                 literalFields |-> <<>>,
                                 staticFields |-> Gathered(given, "staticFields"),
                                 setterFields |-> floating.setterFields,
                                 functions |-> Gathered(given, "functions"),
                                 methods |-> Gathered(given, "methods"),
                                 constructors |-> Gathered(given, "constructors"),
                                 functionConstructors |->
                                     Gathered(given, "functionConstructors"),
                                 overloads |-> <<>>]]
        Given(given) ==
            Once(floatingSetters(Gathered(given, "checkSubfields"), {}, <<>>, <<>>),
                 LAMBDA floating : Finalized(given, floating))
    IN Once([i \in 1..Len(info.definitions) |->
                classEntry(cls, isTable, info.definitions[i])],
            Given)

RECURSIVE finalizeClasses(_, _, _, _)
\* finalize(), lines 749-794: the loop over readingClasses; `omitted` records
\* the classes the loop leaves out
finalizeClasses(readingClasses, i, seenClasses, result) ==
    IF i > Len(readingClasses) THEN result
    ELSE LET cls == readingClasses[i]
             seen == seenClasses \cup {cls.name}
             Continue(reading, next) ==
                 Once([reading |-> reading, seen |-> seen, result |-> next],
                      LAMBDA to : finalizeClasses(to.reading, i + 1, to.seen, to.result))
             Finalized(done) ==
                 IF done.isTable
                 THEN Continue(readingClasses,
                           [result EXCEPT !.tables = Append(@, done.finalized)])
                 ELSE IF /\ cls.definingModule # Undefined
                         /\ cls.definingModule # CurrentModule
                         /\ isEmptyClass(done.finalized)
                 THEN Continue(readingClasses
                           \o SelectSeq(done.extraClasses, LAMBDA x : x.name \notin seen),
                           [result EXCEPT
                              !.omitted = Append(@, [cls |-> cls,
                                                     finalized |-> done.finalized])])
                 ELSE Continue(readingClasses
                           \o SelectSeq(done.extraClasses, LAMBDA x : x.name \notin seen),
                           [result EXCEPT !.classes = Append(@, done.finalized)])
         IN Once(finalizeClassDefinitions(cls), Finalized)

\* ---- actions
\* finalize() for the module that is current: its classes and tables
FinalizeModuleClasses ==
    /\ phase = "resolved"
    /\ \E done \in {finalizeClasses(modules[CurrentModule].classes, 1, {},
                                    [classes |-> <<>>, tables |-> <<>>, omitted |-> <<>>])} :
          /\ analyzed' = [id |-> CurrentModule, classes |-> done.classes,
                          tables |-> done.tables]
          /\ output' = [kind |-> "finalized", omitted |-> done.omitted]
    /\ phase' = "finalized"
    /\ UNCHANGED <<ctxVars, resolverVars, pruneVars, readVars, node, threw, scopeItems>>

FooTable == TableId("(21)")
SubTable == TableId("(22)")
NameFooSub == <<"Foo", ".", "sub">>
KeyOf(name) == <<"\"", name, "\"">>

\* what the two modules may have assigned: Foo.sub = {}, Foo.x = 1 or
\* self.x = 1, Foo.f = function, Foo.sub.y = 1
EntriesOf(field, expression, definers, instances) ==
    {<<>>} \cup {<< FieldEntry(KeyOf(field),
                               << FieldDefinition(expression, definer, instance) >>) >> :
                    definer \in definers, instance \in instances}
FooEntries(definers) ==
    {sub \o x \o f :
        sub \in EntriesOf("sub", TableLiteral(SubTable), definers, {FALSE}),
        x \in EntriesOf("x", LitNumber, definers, BOOLEAN),
        f \in EntriesOf("f", FunctionLiteral(Function1), definers, {FALSE})}

\* the context after both modules were read: Foo is a class of the earlier or
\* of the current module; a class of the current module holds no definition
\* of the earlier one
ClassContexts ==
    {(FooTable :> ClassTable(FooTable, NameFoo, definer, entries))
     @@ (SubTable :> ClassTable(SubTable, subName, definer, y)) :
        definer \in {EarlierModule, CurrentModule},
        entries \in FooEntries({EarlierModule, CurrentModule}),
        subName \in {Undefined, NameFooSub},
        y \in EntriesOf("y", LitNumber, {EarlierModule, CurrentModule}, {FALSE})}
Definers(entries) ==
    {entries[i].expressions[1].definingModule : i \in 1..Len(entries)}
ReadableContexts ==
    {context \in ClassContexts :
        context[FooTable].definingModule = CurrentModule =>
            Definers(context[FooTable].definitions) \cup Definers(context[SubTable].definitions)
                \subseteq {CurrentModule}}

\* the class of the current module's ResolvedModule: a classInfo, which has the
\* defining module of the table (AnalysisContext.ts, lines 1913-1922), or a
\* class that was only seen, which has none (lines 467-481)
ResolvedClass(info, declared) ==
    [name |-> info.className, tableId |-> info.id, base |-> Undefined, generated |-> FALSE,
     definingModule |-> IF declared THEN info.definingModule ELSE Undefined]

InitOmit ==
    /\ \E context \in ReadableContexts, declared \in BOOLEAN :
          /\ idToTableInfo = context
          /\ modules = (CurrentModule :>
                           [classes |-> << ResolvedClass(context[FooTable], declared) >>])
    /\ \E indexer \in {".", ":"}, member \in BOOLEAN :
          idToFunctionInfo =
              (Function1 :>
                  [NewFunctionInfo(Function1) EXCEPT
                      !.identifierExpression =
                          IF member THEN LuaMember(Reference(NameFoo), S("f"), indexer)
                          ELSE NoExpression])
    /\ definitions = EmptyMap
    /\ parameterToFunctionId = EmptyMap
    /\ usageTypes = EmptyMap
    /\ aliasMap = EmptyMap
    /\ node = NoNode
    /\ threw = Undefined
    /\ scopeItems = <<>>
    /\ phase = "resolved"
    /\ analyzed = Undefined
    /\ output = NoOutput
    /\ input = Fresh(LitNil)
    /\ IdleResolver
    /\ IdlePrune
    /\ IdleRead

NextOmit == FinalizeModuleClasses

SpecOmit == InitOmit /\ [][NextOmit]_vars

-----------------------------------------------------------------------------
(* Properties                                                              *)

\* C1: every call of resolve comes to an end, by returning or by the engine's
\* RangeError, whatever the definitions are, cyclic ones included.
C1_ResolveTerminates == <>(status \in {"done", "overflow"})

IsOperation(call, operator) ==
    /\ call.count > 0
    /\ ~call.memo
    /\ call.expression.type = "operation"
    /\ call.expression.operator = operator

KnownFalsy(types) ==
    /\ types # <<>>
    /\ \A i \in 1..Len(types) : types[i] \in {TFalse, TNil}

KnownTruthy(types) ==
    /\ types # <<>>
    /\ \A i \in 1..Len(types) : types[i] \notin {TFalse, TNil, TBoolean}

\* C3: when a literals-only `e1 or e2` has been resolved and resolve(e1) is
\* made of false/nil only, the result is exactly resolve(e2).
C3_OrFalsyLhs ==
    (/\ IsOperation(lastCall, "or")
     /\ isLiteralOperation(lastCall.expression)
     /\ KnownFalsy(lastCall.lhsResolved))
    => AsSet(lastCall.returned) = AsSet(lastCall.rhsTypes)

\* C4 as stated: truthy e1 gives resolve(e2), falsy e1 gives resolve(e1),
\* anything else gives the plain union of the two.
C4_AndAsStated ==
    IsOperation(lastCall, "and") =>
        LET literal == isLiteralOperation(lastCall.expression.arguments[1])
            lhs == lastCall.lhsResolved
            rhs == lastCall.rhsTypes
        IN IF literal /\ KnownTruthy(lhs) THEN AsSet(lastCall.returned) = AsSet(rhs)
           ELSE IF literal /\ KnownFalsy(lhs) THEN AsSet(lastCall.returned) = AsSet(lhs)
           ELSE AsSet(lastCall.returned) = AsSet(lhs) \cup AsSet(rhs)

\* the union of two type sets as resolve returns it: true with false is boolean
CollapsedUnion(a, b) ==
    IF TTrue \in (a \cup b) /\ TFalse \in (a \cup b)
    THEN ((a \cup b) \ {TTrue, TFalse}) \cup {TBoolean}
    ELSE a \cup b

\* C4: for an `and` that carries no usage mask of its own: truthy e1 gives
\* resolve(e2), falsy e1 gives resolve(e1), anything else gives the union of
\* the two in which true together with false reads boolean.
C4_And ==
    (IsOperation(lastCall, "and") /\ ~lastCall.masked) =>
        LET literal == isLiteralOperation(lastCall.expression.arguments[1])
            lhs == lastCall.lhsResolved
            rhs == lastCall.rhsTypes
        IN IF literal /\ KnownTruthy(lhs) THEN AsSet(lastCall.returned) = AsSet(rhs)
           ELSE IF literal /\ KnownFalsy(lhs) THEN AsSet(lastCall.returned) = AsSet(lhs)
           ELSE AsSet(lastCall.returned) = CollapsedUnion(AsSet(lhs), AsSet(rhs))

C4_Witness ==
    /\ IsOperation(lastCall, "and")
    /\ ~lastCall.masked
    /\ KnownTruthy(lastCall.lhsResolved)
    /\ isLiteralOperation(lastCall.expression)
    /\ Len(lastCall.returned) = 2

\* the mask under which the expression of a finished call is used
MaskOf(call) == getUsageTypes(call.expression).types

\* a type a mask lets through: an '@function...' id under 'function', an
\* '@table...' id under 'table', any other type under its own name
Allows(mask, type) ==
    \/ type \in mask
    \/ Len(type) >= 2 /\ type[1] = "@" /\ type[2] = "function" /\ TFunction \in mask
    \/ Len(type) >= 2 /\ type[1] = "@" /\ type[2] = "table" /\ TTable \in mask

AllowsNone(mask, types) == \A i \in 1..Len(types) : ~Allows(mask, types[i])

\* C5 as stated: under a usage mask the returned set is a subset of the set
\* computed before narrowing, and is that very set when the mask allows none
\* of its members.
C5_NarrowAsStated ==
    (lastCall.count > 0 /\ ~lastCall.memo /\ lastCall.masked) =>
        /\ AsSet(lastCall.returned) \subseteq AsSet(lastCall.pre)
        /\ AllowsNone(MaskOf(lastCall), lastCall.pre)
              => AsSet(lastCall.returned) = AsSet(lastCall.pre)

\* a type set as resolve returns it: true together with false reads boolean
Collapsed(a) ==
    IF TTrue \in a /\ TFalse \in a THEN (a \ {TTrue, TFalse}) \cup {TBoolean} ELSE a

\* C5: under a usage mask the narrowed set is a subset of the set computed
\* before narrowing and holds only allowed types, unless the mask allows none
\* of them, and then it is that set unchanged; what resolve returns is the
\* narrowed set with true and false collapsed to boolean.
C5_Narrow ==
    (lastCall.count > 0 /\ ~lastCall.memo /\ lastCall.masked) =>
        /\ AsSet(lastCall.narrowed) \subseteq AsSet(lastCall.pre)
        /\ IF AllowsNone(MaskOf(lastCall), lastCall.pre)
           THEN lastCall.narrowed = lastCall.pre
           ELSE \A i \in 1..Len(lastCall.narrowed) :
                    Allows(MaskOf(lastCall), lastCall.narrowed[i])
        /\ AsSet(lastCall.returned) = Collapsed(AsSet(lastCall.narrowed))
        /\ AsSet(lastCall.returned) \subseteq Collapsed(AsSet(lastCall.pre))

\* a mask that allows nothing of a set of several types leaves it alone
C5_Witness ==
    /\ lastCall.count > 0
    /\ lastCall.masked
    /\ Len(lastCall.pre) > 1
    /\ AllowsNone(MaskOf(lastCall), lastCall.pre)
    /\ lastCall.returned = lastCall.pre

\* C6: no set returned by resolve holds both true and false, whether it was
\* computed or answered from `seen`; when the types a call has computed (the
\* set it copies into its result) hold both, the result holds boolean.
C6_BooleanCollapse ==
    /\ ~(Has(retTypes, TTrue) /\ Has(retTypes, TFalse))
    /\ \A i \in 1..Len(seens) : \A key \in DOMAIN seens[i] :
          ~(Has(seens[i][key], TTrue) /\ Has(seens[i][key], TFalse))
    /\ (Has(lastCall.narrowed, TTrue) /\ Has(lastCall.narrowed, TFalse))
          => Has(lastCall.returned, TBoolean)

\* a call answered from `seen` with a set that was collapsed
C6_Witness ==
    /\ lastCall.memo
    /\ Has(lastCall.returned, TBoolean)
    /\ retTypes = lastCall.returned


\* C7: once a pass of finalizeClassFields over the whole class map has
\* finished, further passes, in any order, remove no field: the map stays as
\* the first pass left it.
C7_PruneIdempotent == pruneRuns >= 1 => clsMap = firstPruned

C7_Witness ==
    /\ pruneRuns = 2
    /\ pruneTodo = <<>>
    /\ firstPruned # clsInput
    /\ \E name \in DOMAIN clsInput : \E i \in 1..Len(clsInput[name]) :
          clsInput[name][i].extends = name

\* the positions of the order whose module was read without an error
ReadOk == {i \in 1..Len(readLog) : readLog[i] = "ok"}

\* C10: when read returns, every identifier of the order has been attempted
\* (a failure did not stop the loop), the finalized modules were collected, and
\* the returned list holds exactly the supplied identifiers that name a
\* successfully read module, in the supplied order.
C10_ReadSkipsFailures ==
    returned.done =>
        /\ Len(readLog) = Len(identifiers)
        /\ \A i \in ReadOk :
              \E k \in 1..Len(returned.modules) : returned.modules[k].id = identifiers[i]
        /\ LET expected == SelectSeq(identifiers,
                               LAMBDA id : \E i \in ReadOk : identifiers[i] = id)
           IN returned.modules = [k \in 1..Len(expected) |-> [id |-> expected[k]]]

C10_Witness ==
    /\ returned.done
    /\ \E i, j, k \in 1..Len(readLog) :
          /\ i < j /\ j < k
          /\ readLog[i] = "parse"
          /\ readLog[j] = "duplicate"
          /\ readLog[k] = "ok"
    /\ Len(returned.modules) >= 2

\* C9: no operation of the context raises an exception, whatever well-formed
\* function declaration it is given, a body with `local self` or `local publ`
\* without an initializer included.
C9_NoException == threw = Undefined

Internal(name) == StartsWith(name, At)
CleanTypes(types) == \A i \in 1..Len(types) : ~Internal(types[i])
CleanFunction(function) ==
    /\ \A i \in 1..Len(function.parameters) :
          /\ ~Internal(function.parameters[i].name)
          /\ CleanTypes(function.parameters[i].types)
    /\ \A i \in 1..Len(function.returnTypes) : CleanTypes(function.returnTypes[i])
CleanValue(expression) ==
    /\ expression.type = "reference" => ~Internal(expression.id)
    /\ (expression.type = "literal" /\ expression.luaType = TFunction)
          => CleanFunction(expression)
CleanModule(mod) ==
    /\ \A i \in 1..Len(mod.classes) :
          /\ ~Internal(mod.classes[i].name)
          /\ ~Internal(mod.classes[i].extends)
    /\ \A i \in 1..Len(mod.tables) : ~Internal(mod.tables[i].name)
    /\ \A i \in 1..Len(mod.functions) :
          /\ ~Internal(mod.functions[i].name)
          /\ CleanFunction(mod.functions[i])
    /\ \A i \in 1..Len(mod.fields) :
          /\ ~Internal(mod.fields[i].name)
          /\ CleanTypes(mod.fields[i].types)

C13_AmbiguousAlias ==
    (/\ lastCall.count > 0
     /\ ~lastCall.memo
     /\ lastCall.expression.type = "require"
     /\ lastCall.expression.module \notin DOMAIN modules
     /\ Len(MapGet(aliasMap, lastCall.expression.module, <<>>)) # 1)
    => lastCall.returned = <<>>

ToLiteralActive == \E i \in 1..Len(stack) : stack[i].fn = "toLiteral"

\* C16: every call of resolveToLiteral comes to an end (or the engine gives up
\* with a RangeError on unbounded recursion), also when a reference has one
\* definition that leads back to itself.
C16_ToLiteralTerminates == ToLiteralActive ~> (~ToLiteralActive \/ status = "overflow")

\* the node the last call was about is still being resolved under the same
\* `seen` map, at position i of the call stack
InProgress(i) ==
    /\ stack[i].fn = "resolve"
    /\ stack[i].pc # "start"
    /\ stack[i].info.key = lastCall.key
    /\ stack[i].seen = lastCall.seen
ReEntered == lastCall.memo /\ \E i \in 1..Len(stack) : InProgress(i)

ClassNames(given) ==
    {given[i] : i \in {j \in 1..Len(given) :
                          /\ ~Internal(given[j])
                          /\ given[j] \notin Primitives \cup {TTrue, TFalse, TUnknown}}}
    \cup {getTableInfo(given[i]).className :
             i \in {j \in 1..Len(given) :
                       /\ StartsWith(given[j], TablePrefix)
                       /\ ~getTableInfo(given[j]).emitAsTable
                       /\ getTableInfo(given[j]).className # Undefined}}
\* the primitives a raw type set stands for
PrimitivesOf(given) ==
    {p \in Primitives :
        \/ Has(given, p)
        \/ p = TBoolean /\ (Has(given, TTrue) \/ Has(given, TFalse))
        \/ p = TFunction /\ \E i \in 1..Len(given) : StartsWith(given[i], FunctionPrefix)
        \/ p = TTable /\ \E i \in 1..Len(given) :
                            /\ StartsWith(given[i], TablePrefix)
                            /\ (getTableInfo(given[i]).emitAsTable
                                \/ getTableInfo(given[i]).className = Undefined)}
NarrowingFailure ==
    /\ output.kind = "types"
    /\ ~Has(output.given, TUnknown)
    /\ Cardinality(ClassNames(output.given)) > 2

\* C20 as stated: finalizeTypes of a set that stands for more than two class
\* names returns exactly {table}.
C20_OnlyTableAsStated == NarrowingFailure => AsSet(output.types) = {TTable}

\* C20: finalizeTypes of a set without 'unknown' that stands for more than
\* two class names returns table together with the primitives the set stands
\* for, and none of the class names.
C20_ClassesBecomeTable ==
    NarrowingFailure =>
        AsSet(output.types) = PrimitivesOf(output.given) \cup {TTable}
C20_Witness ==
    /\ NarrowingFailure
    /\ Has(output.given, TNil)
    /\ AsSet(output.types) = {TNil, TTable}

\* the statement the context was handed last, and the fields of every table
LastStatement == output.log[Len(output.log)]
FieldsOf(tables, id) == MapGet(tables, id, NewTableInfo(id)).definitions
NoFieldAdded ==
    \A id \in (DOMAIN idToTableInfo) \cup (DOMAIN output.before) :
        FieldsOf(idToTableInfo, id) = FieldsOf(output.before, id)
\* addAssignment took one of the `break`s of lines 188, 193 and 218
BaseOrIndexUnresolved ==
    /\ output.kind = "statements"
    /\ LastStatement.item.type = "assignment"
    /\ \/ LastStatement.item.lhs.type = "member" /\ Len(LastStatement.base) # 1
       \/ LastStatement.item.lhs.type = "index" /\ Len(LastStatement.base) # 1
       \/ LastStatement.item.lhs.type = "index" /\ ~Folded(LastStatement.literal)

\* C11: an assignment to base[index] or base.member whose base does not
\* resolve to exactly one type (for a member, once the @self and @instance
\* types are taken out), or whose index does not fold to a literal, adds no
\* field: every table has the definitions it had before the assignment.
C11_NoFieldAdded == BaseOrIndexUnresolved => NoFieldAdded

\* Foo is one table that has fields, and Foo[x] is assigned where x has two
\* definitions
C11_Witness ==
    /\ BaseOrIndexUnresolved
    /\ LastStatement.item.lhs = Index(Reference(NameFoo), Reference(IdX))
    /\ Len(LastStatement.base) = 1
    /\ StartsWith(LastStatement.base[1], TablePrefix)
    /\ FieldsOf(idToTableInfo, LastStatement.base[1]) # EmptyMap

\* the definitions list a logged assignment was pushed onto, and the places
\* its definition has in that list now
ListOf(e) ==
    IF e.key = Undefined THEN MapGet(definitions, e.target, <<>>)
    ELSE MapGet(FieldsOf(idToTableInfo, e.target), e.key, <<>>)
Places(e) == {p \in 1..Len(ListOf(e)) : ListOf(e)[p].expression = e.item.rhs}
\* the statement assigns a literal that no other statement assigns
Tagged(e) == e.item.type = "assignment" /\ e.item.rhs.type = "literal"
\* two assignments of such literals, the i-th before the j-th, to the same key
\* of the same table or to the same variable
SameList(i, j) ==
    /\ i < j
    /\ Tagged(Log[i]) /\ Tagged(Log[j])
    /\ Log[i].target # Undefined
    /\ Log[i].target = Log[j].target
    /\ Log[i].key = Log[j].key
InOrder(i, j) == \A p \in Places(Log[i]), q \in Places(Log[j]) : p < q

CallRecorded == output.kind = "usage" /\ output.callee # Undefined
CalleeInfo == idToFunctionInfo[output.callee]

\* C17: when addUsage records a call whose target resolves to one function,
\* the types of the i-th argument are in the function's i-th parameter type
\* set, and every parameter of the function past the arguments has nil in its
\* set, whether or not it had inferred types before the call.
C17_ArgumentsAndNil ==
    CallRecorded =>
        /\ \A i \in 1..Len(output.item.arguments) :
              /\ i <= Len(CalleeInfo.parameterTypes)
              /\ AsSet(ResolveChain(output.item.arguments[i]))
                    \subseteq AsSet(CalleeInfo.parameterTypes[i])
        /\ \A i \in (Len(output.item.arguments) + 1)..Len(CalleeInfo.parameters) :
              /\ i <= Len(CalleeInfo.parameterTypes)
              /\ Has(CalleeInfo.parameterTypes[i], TNil)

\* the smallest of a list of widths
Smallest(widths) ==
    CHOOSE w \in AsSet(widths) : \A v \in AsSet(widths) : w <= v
\* the function whose return statements were read
ReadFunction == idToFunctionInfo[Function1]

\* C19: after any sequence of resolveReturns calls for a function that is no
\* constructor, minReturns is the smallest return width seen so far, it is at
\* most the number of return slots, and every return slot from minReturns on
\* (counted from 0) contains nil.
C19_MinReturns ==
    Widths[Function1] # <<>> =>
        /\ ReadFunction.minReturns = Smallest(Widths[Function1])
        /\ ReadFunction.minReturns <= Len(ReadFunction.returnTypes)
        /\ \A i \in 1..Len(ReadFunction.returnTypes) :
              i > ReadFunction.minReturns => Has(ReadFunction.returnTypes[i], TNil)

\* a return of width 3 through a trailing call, then one of width 1, then one
\* of width 2: the minimum is 1 and the slots after the first hold nil
C19_Witness ==
    /\ Widths[Function1] = <<3, 1, 2>>
    /\ ReadFunction.minReturns = 1
    /\ Len(ReadFunction.returnTypes) = 3
    /\ Has(ReadFunction.returnTypes[2], TNil) /\ Has(ReadFunction.returnTypes[3], TNil)
    /\ ~Has(ReadFunction.returnTypes[1], TNil)

\* no two members of a list share a name
Distinct(list) == \A i, j \in 1..Len(list) : list[i].name = list[j].name => i = j
DistinctMembers(cls) ==
    /\ Distinct(cls.fields) /\ Distinct(cls.staticFields)
    /\ Distinct(cls.functions) /\ Distinct(cls.methods)

\* C15: augmentation by the sidecar only adds what is missing: after
\* augmentClass and augmentModule no two fields, static fields, functions or
\* methods of a class, and no two classes, functions or tables of the module,
\* share a name.
C15_OnlyMissingAdded ==
    stub.state = "augmented" =>
        /\ Distinct(stub.module.classes)
        /\ Distinct(stub.module.functions)
        /\ Distinct(stub.module.tables)
        /\ \A i \in 1..Len(stub.module.classes) : DistinctMembers(stub.module.classes[i])

\* the module at place i has been through its turn of the loop of run()
Annotated(i) == stub.state = "annotating" /\ i \in 1..(stub.index - 1)
Stubs(id) == SelectSeq(stub.out, LAMBDA file : file.id = id)
\* the Rosetta method of Foo, or function, that describes func, if any
RosettaOf(mod, func, isMethod) ==
    LET file == RosettaFileOf(mod)
    IN IF ~file.present THEN <<>>
       ELSE IF ~isMethod THEN Named(file.functions, func.name)
       ELSE IF file.classes = <<>> THEN <<>>
       ELSE Named(file.classes[1].methods, func.name)
CountDiffers(mod, func, isMethod) ==
    /\ RosettaOf(mod, func, isMethod) # <<>>
    /\ Len(RosettaOf(mod, func, isMethod)[1].parameters) # Len(func.parameters)
Emitted(mod, name, func) ==
    /\ Len(Stubs(mod.id)) = 1
    /\ \E k \in 1..Len(Stubs(mod.id)[1].typestub) :
          Stubs(mod.id)[1].typestub[k] = getFunctionString(name, func.parameters)
Diagnosed == stub.diagnostics # <<>>

\* C14: when the Rosetta parameter count of a function or method differs from
\* the analyzed count, a diagnostic is recorded, the stub of the module is still
\* generated, and the function is emitted with the analyzed parameter list.
C14_AnalyzedArity ==
    \A i \in 1..Len(stub.modules) : Annotated(i) =>
        LET mod == stub.modules[i]
        IN /\ \A j \in 1..Len(mod.functions) :
                CountDiffers(mod, mod.functions[j], FALSE) =>
                    /\ Diagnosed
                    /\ Emitted(mod, mod.functions[j].name, mod.functions[j])
           /\ \A c \in 1..Len(mod.classes) : \A j \in 1..Len(mod.classes[c].methods) :
                CountDiffers(mod, mod.classes[c].methods[j], TRUE) =>
                    /\ Diagnosed
                    /\ Emitted(mod, mod.classes[c].name \o <<":">> \o mod.classes[c].methods[j].name,
                               mod.classes[c].methods[j])

\* C28: the list Analyzer.read returns holds each analyzed module at most
\* once, whatever the order it was given.
C28_EachModuleOnce ==
    returned.done =>
        \A i, j \in 1..Len(returned.modules) :
            returned.modules[i].id = returned.modules[j].id => i = j

\* C26: finalizeClassFields returns for every class map, one with a class
\* that extends itself, directly or through others, included.
C26_PruneTerminates == ~pruneHung

\* C22: the usage mask of an expression is the intersection of what each
\* usage recorded for it permits, and getUsageTypes reports a mask that is
\* the whole universe as absent.
C22_MaskIsIntersection ==
    /\ DOMAIN usageTypes = DOMAIN PermittedSoFar
    /\ \A expression \in DOMAIN usageTypes :
          /\ usageTypes[expression] = PermittedSoFar[expression]
          /\ usageTypes[expression] \subseteq UsageUniverse
          /\ usageTypes[expression] = UsageUniverse => ~getUsageTypes(expression).present
\* the usages of g permit only strings between them, and x has a usage that
\* permits everything
C22_Witness ==
    /\ Reference(IdG) \in DOMAIN usageTypes
    /\ usageTypes[Reference(IdG)] = {TString}
    /\ Reference(IdX) \in DOMAIN usageTypes
    /\ usageTypes[Reference(IdX)] = UsageUniverse

\* the type sets a function info records
RecordedTypes(info) ==
    [parameterTypes |-> info.parameterTypes, returnTypes |-> info.returnTypes]

\* C27: no step of resolve changes the return type sets stored in a module
\* or the parameter and return type sets of a function info.
C27_ResolveReadOnly ==
    [][/\ modules' = modules
       /\ \A id \in DOMAIN idToFunctionInfo :
             /\ id \in DOMAIN idToFunctionInfo'
             /\ RecordedTypes(idToFunctionInfo'[id]) = RecordedTypes(idToFunctionInfo[id])]_vars

\* the last statement assigned to a global an expression that checkClassTable
\* found to be one table
GlobalTableAssigned ==
    /\ output.kind = "statements"
    /\ LastStatement.item.type = "assignment"
    /\ LastStatement.classTable # Undefined
InfoBefore(id) == MapGet(output.before, id, NewTableInfo(id))
LastItem == scopeItems[Len(scopeItems)]
ClassEmitted ==
    /\ LastItem.type = "partial"
    /\ LastItem.kind = "classInfo"
    /\ LastItem.info.name = LastStatement.item.lhs.id
    /\ LastItem.info.tableId = LastStatement.classTable
FieldEmitted ==
    /\ LastItem.type = "partial"
    /\ LastItem.kind = "fieldInfo"
    /\ LastItem.info.name = LastStatement.item.lhs.id
    /\ LastItem.info.types = <<InfoBefore(LastStatement.classTable).className>>
PlainRhs == LastStatement.item.rhs.type \notin {"literal", "operation"}

MetatableSet == output.kind = "statements" /\ LastStatement.item.type = "setMetatable"
IsClassBefore(id) == InfoBefore(id).className # Undefined
\* meta resolved to exactly one class table
OneClassTable(types) ==
    /\ Len(types) = 1
    /\ StartsWith(types[1], TablePrefix)
    /\ IsClassBefore(types[1])
\* every type X resolved to is a table that is no class
PlainTables(types) ==
    \A i \in 1..Len(types) : StartsWith(types[i], TablePrefix) /\ ~IsClassBefore(types[i])
\* the fields of every such table are in the metatable's table, flagged
FieldsCopied(types, metaId) ==
    \A i \in 1..Len(types) : \A key \in DOMAIN FieldsOf(output.before, types[i]) :
        \A d \in 1..Len(FieldsOf(output.before, types[i])[key]) :
            \E p \in 1..Len(MapGet(FieldsOf(idToTableInfo, metaId), key, <<>>)) :
                FieldsOf(idToTableInfo, metaId)[key][p] =
                    FieldDef(FieldsOf(output.before, types[i])[key][d].expression, TRUE)

\* C23: setMetatable(X, meta) copies the fields of X into the metatable's table
\* as instance definitions and binds X to an @instance id defined as the
\* metatable only when meta resolves to exactly one class table and every
\* type of the local X is a table that is no class; in every other case no
\* table gets a definition and no instance is bound.
C23_OnlyPlainTables ==
    MetatableSet =>
        IF OneClassTable(LastStatement.metaTypes) /\ PlainTables(LastStatement.lhsTypes)
        THEN /\ LastStatement.instance # Undefined
             /\ definitions[LastStatement.instance] =
                   <<Def(TableLiteral(LastStatement.metaTypes[1]))>>
             /\ FieldsCopied(LastStatement.lhsTypes, LastStatement.metaTypes[1])
        ELSE /\ LastStatement.instance = Undefined
             /\ NoFieldAdded

\* the last statement assigned a function to a member of a table that was no
\* class and is one now: a nested class was synthesized
NestedClassMade ==
    /\ output.kind = "statements"
    /\ LastStatement.item.type = "assignment"
    /\ LastStatement.item.lhs.type = "member"
    /\ LastStatement.item.rhs.functionId # Undefined
    /\ LastStatement.target # Undefined
    /\ LastStatement.target \in DOMAIN output.before
    /\ InfoBefore(LastStatement.target).className = Undefined
    /\ InfoBefore(LastStatement.target).containerId # Undefined
    /\ idToTableInfo[LastStatement.target].className # Undefined
\* the table and the key of the field the promoted table was assigned through:
\* for Base.inner.sub.f = function, the key "sub" of the table of Base.inner
ThroughTable == ResolveChain(LastStatement.item.lhs.base.base)
ThroughKey == getLiteralKey(LastStatement.item.lhs.base.member, Undefined)
IsThroughField(id, key) ==
    /\ LastStatement.item.lhs.base.type = "member"
    /\ ThroughTable = <<id>>
    /\ ThroughKey = key

\* C24: when a nested class is synthesized, the only definitions replaced are
\* those of the container's field the promoted table was assigned through:
\* every other field of every table keeps the definitions it had, and the
\* promoted table's own field gains the function.
C24_OnlyContainerField ==
    NestedClassMade =>
        \A id \in DOMAIN output.before : \A key \in DOMAIN FieldsOf(output.before, id) :
            (~IsThroughField(id, key)
             /\ ~(id = LastStatement.target /\ key = LastStatement.key))
                => FieldsOf(idToTableInfo, id)[key] = FieldsOf(output.before, id)[key]

\* ---- C25
\* the static fields of cls that transformModules injected: named Type and
\* holding the derive name
InjectedTypes(cls) ==
    {k \in 1..Len(cls.staticFields) : cls.staticFields[k] = TypeField(deriveNameOf(cls))}
TransformedClasses ==
    UNION {{stub.modules[i].classes[j] : j \in 1..Len(stub.modules[i].classes)} :
              i \in 1..Len(stub.modules)}
SidecarDefinesType(cls) ==
    \E i \in 1..Len(rosetta.files) : definesType(rosetta.files[i], cls.name)

\* C25: once RosettaUpdater.run has transformed the modules, in getModules
\* alone or in getModules and again in update, every derived class holds
\* exactly one injected static field Type with its derive name, and none when
\* the Rosetta data defines Type for the class or the class is in
\* excludeFields.
C25_OneTypeField ==
    (rosetta.annotator = "RosettaUpdater" /\ stub.state \in {"modules", "written"}) =>
        \A cls \in TransformedClasses :
            deriveNameOf(cls) # Undefined =>
                Cardinality(InjectedTypes(cls)) =
                    IF cls.name \in rosetta.options.excludeFields \/ SidecarDefinesType(cls)
                    THEN 0 ELSE 1

\* ---- C29
\* C29: a class finalize leaves out of the module's output is defined in
\* another module and contributes nothing in the current one: no fields,
\* literal fields, static fields, setter fields, functions, methods,
\* constructors or overloads; so a class with floating setter fields is not
\* left out.
C29_OmittedOnlyIfEmpty ==
    output.kind = "finalized" =>
        \A k \in 1..Len(output.omitted) :
            /\ output.omitted[k].cls.definingModule \notin {Undefined, CurrentModule}
            /\ isEmptyClass(output.omitted[k].finalized)
            /\ output.omitted[k].finalized.setterFields = <<>>

\* ---- C30
\* no step gives a table that has a class name another class name
ClassNamesKept ==
    \A id \in DOMAIN idToTableInfo :
        idToTableInfo[id].className # Undefined =>
            /\ id \in DOMAIN idToTableInfo'
            /\ idToTableInfo'[id].className = idToTableInfo[id].className

\* C30: the className of a table is written once: after an operation has set
\* it, no assignment, setmetatable call or implied class changes it to another
\* name.
C30_ClassNameWriteOnce == [][ClassNamesKept]_vars

\* a global of another name was assigned the table of a class, a classInfo was
\* emitted for it, and the table has the name it had
C30_Witness ==
    /\ GlobalTableAssigned
    /\ InfoBefore(LastStatement.classTable).className
           \notin {Undefined, LastStatement.item.lhs.id}
    /\ ClassEmitted
    /\ idToTableInfo[LastStatement.classTable].className =
           InfoBefore(LastStatement.classTable).className
=============================================================================
